---------------------------- MODULE Spec2Model ----------------------------
(***************************************************************************)
(* Model of the booky library service (BookService), the upload flow of    *)
(* the Library view that drives it, and the remote store it talks to       *)
(* (the `books` table and the `books` storage bucket).                     *)
(*                                                                         *)
(* An async method is modelled as one action per stretch of code between   *)
(* two awaits: the action that handles a store response applies the        *)
(* store's effect and runs the continuation up to the next await.          *)
(*                                                                         *)
(* Values that may be null in JavaScript/SQL are option-encoded:           *)
(* NULL == <<>> and Some(v) == <<v>>.  A field that is `undefined`         *)
(* is a field that is absent from the record (JSON drops it).              *)
(***************************************************************************)
EXTENDS Integers, Sequences, FiniteSets, TLC

(* ------------------------------ bounds --------------------------------- *)
MaxUploads == 2   \* uploadBook calls
MaxBooks == 3     \* books in the library the service calls work on
MaxDeletes == 1   \* deleteBook calls
MaxUpdates == 2   \* updateBook calls
MaxGets == 1      \* getBooks calls
MaxCalls == 3     \* service calls altogether
MaxClock == 2     \* last value of the clock
MaxPages == 3     \* pages of the longest document
MaxShelf == 2     \* books in the library the reading area works on
MaxInFlight == 1  \* handleBookUpdate calls awaiting updateBook at a time
MaxRenders == 2   \* renderPage calls awaited at a time

(* --------------------------- option values ----------------------------- *)
NULL == <<>>
Some(v) == <<v>>
Val(o) == o[1]

Last(s) == s[Len(s)]

RECURSIVE SeqFilter(_, _)
SeqFilter(s, keep) ==
  IF s = <<>> THEN <<>>
  ELSE IF Head(s) \in keep THEN <<Head(s)>> \o SeqFilter(Tail(s), keep)
       ELSE SeqFilter(Tail(s), keep)

(* -------------------------- reading progress --------------------------- *)
(* A progress value is a number of percent that need not be whole.  It is  *)
(* kept as a whole number of units, ProgressScale units to the percent,    *)
(* fine enough that currentPage / totalPages * 100 is exact for every      *)
(* document of up to MaxPages pages and that a hundredth of a percent is   *)
(* a whole number of units.                                                *)
RECURSIVE Factorial(_)
Factorial(n) == IF n <= 1 THEN 1 ELSE n * Factorial(n - 1)

ProgressScale == 100 * Factorial(MaxPages)

Percent(n) == n * ProgressScale

(* (currentPage / totalPages) * 100 *)
PageProgress(currentPage, totalPages) ==
  (currentPage * 100 * ProgressScale) \div totalPages

(* v rounded to the nearest multiple of step, halves upwards *)
RoundTo(v, step) == ((2 * v + step) \div (2 * step)) * step

(* Math.round *)
MathRound(v) == RoundTo(v, ProgressScale)

(* A value stored in a DECIMAL(5,2) column *)
Decimal52(v) == RoundTo(v, ProgressScale \div 100)

(* ------------------------------ inputs --------------------------------- *)
(* A File: name is the list of its '.'-separated parts. *)
PdfType == "application/pdf"
Files ==
  { [name |-> <<"dune", "pdf">>, type |-> PdfType, size |-> 10],
    [name |-> <<"scan">>, type |-> PdfType, size |-> 20],
    [name |-> <<"notes", "pdf">>, type |-> "text/plain", size |-> 30] }

(* Text fields of the form: title is a list of name parts (<<>> is the     *)
(* empty string), tags the list of ','-separated parts of the tags text.   *)
EmptyForm == [title |-> <<>>, author |-> "", description |-> "", tags |-> <<"">>]

(* What the user may type into the upload form: <<field, value>>.          *)
FormEdits == { <<"tags", <<"fiction", " ">>>> }

(* Partial<Book> arguments of updateBook *)
UpdateInputs ==
  { [currentPage |-> 2, readingProgress |-> Percent(50), totalPages |-> Some(4)],
    [currentPage |-> 2, readingProgress |-> PageProgress(2, 3), lastRead |-> Some(0)] }

(* ------------------------- BookService helpers ------------------------- *)
BucketName == "books"

(* Book field -> column, as listed in toDb *)
ToDbColumns ==
  [title |-> "title", author |-> "author", description |-> "description",
   tags |-> "tags", fileSize |-> "file_size", totalPages |-> "total_pages",
   url |-> "file_url", currentPage |-> "current_page",
   readingProgress |-> "reading_progress", lastRead |-> "last_read"]

FieldOf(col) == CHOOSE f \in DOMAIN ToDbColumns : ToDbColumns[f] = col

(* toDb: copies the ten mapped fields; a field the book lacks is undefined *)
(* and so absent from the payload.  `id` is not among the copied fields.   *)
toDb(book) ==
  [c \in {ToDbColumns[f] : f \in (DOMAIN book) \cap (DOMAIN ToDbColumns)}
     |-> book[FieldOf(c)]]

(* Book field -> column, as read in fromDb *)
FromDbColumnsLastReadFromCreated ==
  [id |-> "id", title |-> "title", author |-> "author",
   description |-> "description", tags |-> "tags", dateAdded |-> "created_at",
   fileSize |-> "file_size", totalPages |-> "total_pages", url |-> "file_url",
   currentPage |-> "current_page", readingProgress |-> "reading_progress",
   lastRead |-> "created_at"]

FromDbColumns ==
  [id |-> "id", title |-> "title", author |-> "author",
   description |-> "description", tags |-> "tags", dateAdded |-> "created_at",
   fileSize |-> "file_size", totalPages |-> "total_pages", url |-> "file_url",
   currentPage |-> "current_page", readingProgress |-> "reading_progress",
   lastRead |-> "last_read"]

(* The right-hand sides of `??` in fromDb *)
FromDbDefaults ==
  [description |-> Some(""), tags |-> Some(<<>>), fileSize |-> 0,
   totalPages |-> Some(0), currentPage |-> 1, readingProgress |-> 0,
   lastRead |-> NULL]

(* Columns whose value may be null (option-encoded) *)
NullableColumns == {"description", "tags", "total_pages", "last_read"}

(* fromDb: `record.c ?? d` is d when the column is null or undefined; a    *)
(* field read without `??` from a column the record lacks is undefined.    *)
fromDb(record) ==
  LET Missing(c) ==
        \/ c \notin DOMAIN record
        \/ c \in NullableColumns /\ record[c] = NULL
      fields == {f \in DOMAIN FromDbColumns :
                   f \in DOMAIN FromDbDefaults \/ FromDbColumns[f] \in DOMAIN record}
  IN [f \in fields |->
        IF Missing(FromDbColumns[f]) THEN FromDbDefaults[f]
        ELSE record[FromDbColumns[f]]]

(* generateId: a fresh client-side string, one per uploadBook call *)
generateId(u) == <<"local", u>>

(* file.name.split('.').pop() *)
FileExt(file) == Last(file.name)

(* `${bookId}.${fileExt}` *)
FileName(bookId, fileExt) == <<bookId, fileExt>>

(* file.name.replace('.pdf', ''): drops the first ".pdf" *)
RECURSIVE DropFirstPdf(_)
DropFirstPdf(parts) ==
  IF parts = <<>> THEN <<>>
  ELSE IF Head(parts) = "pdf" THEN Tail(parts)
       ELSE <<Head(parts)>> \o DropFirstPdf(Tail(parts))

NameWithoutPdf(file) == <<Head(file.name)>> \o DropFirstPdf(Tail(file.name))

(* ----------------------------- remote store ---------------------------- *)
(* supabase.storage.from(bucket).getPublicUrl(key): derived from the key *)
PublicUrl(fileName) == <<"storage", "v1", "object", "public", BucketName, fileName>>

(* Columns of the books table that are NOT NULL without a default *)
RequiredColumns == {"title", "author", "file_size", "file_url"}

Col(payload, c, default) == IF c \in DOMAIN payload THEN payload[c] ELSE default

(* INSERT of one payload: absent columns take the column default *)
InsertRow(payload, uuid, now) ==
  [id |-> Col(payload, "id", uuid),
   title |-> payload.title,
   author |-> payload.author,
   description |-> Col(payload, "description", NULL),
   tags |-> Col(payload, "tags", NULL),
   file_size |-> payload.file_size,
   total_pages |-> Col(payload, "total_pages", NULL),
   file_url |-> payload.file_url,
   current_page |-> Col(payload, "current_page", 1),
   reading_progress |-> Decimal52(Col(payload, "reading_progress", 0)),
   last_read |-> Col(payload, "last_read", NULL),
   created_at |-> now]

(* UPDATE ... SET of the columns present in the payload *)
UpdateRow(row, payload) ==
  [c \in DOMAIN row |->
     IF c \notin DOMAIN payload THEN row[c]
     ELSE IF c = "reading_progress" THEN Decimal52(payload[c])
     ELSE payload[c]]

(* gen_random_uuid() for the insert issued by upload u *)
Uuid(u) == <<"uuid", u>>

BookIds == {Uuid(u) : u \in 1..MaxBooks}

(* ------------------------------- state --------------------------------- *)
VARIABLES
  books,           \* rows of the remote books table
  bucket,          \* keys of the objects in the storage bucket
  clock,           \* current time (Date.now() / NOW())
  uploads,         \* uploadBook calls, one per slot
  deletes,         \* deleteBook calls
  updates,         \* updateBook calls
  gets,            \* getBooks calls
  uploadFile,      \* Library: file awaiting its metadata form
  showUploadForm,  \* Library: metadata form visible
  formData,        \* Library: contents of the metadata form
  lastAlert,       \* Library: text of the last alert() shown
  mapBook,         \* a Book handed to toDb
  mapResult,       \* what fromDb makes of toDb's record
  searchQuery,     \* Library: text of the search field
  filteredBooks,   \* Library: the books the search leaves
  appBooks,        \* App: the in-memory collection (books)
  selectedBook,    \* App: the book open in the reading area
  bookUpdates,     \* App: handleBookUpdate calls, one per updateBook slot
  viewer,          \* PDFViewer: state of the mounted viewer
  pin,             \* PinGate: digits entered so far
  isMobile,        \* PinGate: narrow window
  showInput,       \* PinGate: PIN field shown on mobile
  gatePreview      \* PinGate: preview mode chosen

serviceVars == <<books, bucket, clock, uploads, deletes, updates, gets,
                 uploadFile, showUploadForm, formData, lastAlert>>

mappingVars == <<mapBook, mapResult>>

searchVars == <<searchQuery, filteredBooks>>

appVars == <<appBooks, selectedBook, bookUpdates>>

gateVars == <<pin, isMobile, showInput, gatePreview>>

clientVars == <<mappingVars, searchVars, appVars, viewer, gateVars>>

vars == <<serviceVars, clientVars>>

libraryVars == <<uploadFile, showUploadForm, formData, lastAlert>>

IdleUpload ==
  [pc |-> "idle", file |-> NULL, metadata |-> NULL, bookId |-> NULL,
   fileName |-> NULL, dbRecord |-> NULL, log |-> <<>>, result |-> NULL,
   error |-> NULL]

IdleDelete ==
  [pc |-> "idle", bookId |-> NULL, filename |-> NULL, log |-> <<>>,
   error |-> NULL]

IdleUpdate ==
  [pc |-> "idle", bookId |-> NULL, dbUpdates |-> NULL, result |-> NULL,
   error |-> NULL]

IdleGet == [pc |-> "idle", result |-> NULL, error |-> NULL, logged |-> FALSE]

(* No viewer is mounted *)
NoViewer == [mounted |-> FALSE]

(* Each part of the client before anything is shown *)
MappingIdle == mapBook = NULL /\ mapResult = NULL

SearchIdle == searchQuery = <<>> /\ filteredBooks = <<>>

AppIdle ==
  /\ appBooks = <<>>
  /\ selectedBook = NULL
  /\ bookUpdates = [p \in 1..MaxUpdates |-> NULL]

GateIdle ==
  /\ pin = <<>>
  /\ isMobile = FALSE
  /\ showInput = FALSE
  /\ gatePreview = FALSE

ClientIdle ==
  /\ MappingIdle
  /\ SearchIdle
  /\ AppIdle
  /\ viewer = NoViewer
  /\ GateIdle

Init ==
  /\ books = {}
  /\ bucket = {}
  /\ clock = 1
  /\ uploads = [u \in 1..MaxUploads |-> IdleUpload]
  /\ deletes = [d \in 1..MaxDeletes |-> IdleDelete]
  /\ updates = [p \in 1..MaxUpdates |-> IdleUpdate]
  /\ gets = [g \in 1..MaxGets |-> IdleGet]
  /\ uploadFile = NULL
  /\ showUploadForm = FALSE
  /\ formData = EmptyForm
  /\ lastAlert = ""
  /\ ClientIdle

(* The service and the upload form at rest, on an empty store *)
ServiceIdle ==
  /\ books = {}
  /\ bucket = {}
  /\ clock = 1
  /\ uploads = [u \in 1..MaxUploads |-> IdleUpload]
  /\ deletes = [d \in 1..MaxDeletes |-> IdleDelete]
  /\ updates = [p \in 1..MaxUpdates |-> IdleUpdate]
  /\ gets = [g \in 1..MaxGets |-> IdleGet]
  /\ uploadFile = NULL
  /\ showUploadForm = FALSE
  /\ formData = EmptyForm
  /\ lastAlert = ""

(* The lowest slot of a pool that has not been used yet *)
FreeSlot(pool, s) == pool[s].pc = "idle" /\ \A t \in 1..(s - 1) : pool[t].pc # "idle"

(* Number of deleteBook, updateBook and getBooks calls made so far *)
CallsStarted ==
  Cardinality({d \in 1..MaxDeletes : deletes[d].pc # "idle"})
  + Cardinality({p \in 1..MaxUpdates : updates[p].pc # "idle"})
  + Cardinality({g \in 1..MaxGets : gets[g].pc # "idle"})

Tick ==
  /\ clock < MaxClock
  /\ clock' = clock + 1
  /\ UNCHANGED <<books, bucket, uploads, deletes, updates, gets,
                 uploadFile, showUploadForm, formData, lastAlert, clientVars>>

(* ------------------------------ uploadBook ------------------------------ *)
(* Entries of a call's log, in the order the code produces them: the       *)
(* progress events handed to onProgress, the requests sent to the store    *)
(* and the store's replies.                                                *)
ProgressEvent(bookId, progress, status, error) ==
  [kind |-> "progress", bookId |-> bookId, progress |-> progress,
   status |-> status, error |-> error]

StoreCall(op, arg) == [kind |-> "call", op |-> op, arg |-> arg]

StoreReply(op, ok) == [kind |-> "reply", op |-> op, ok |-> ok]

(* Variant of UploadStartLog: progress 25 reported after the upload is issued *)
UploadStartLogLate(bookId, fileName) ==
  << ProgressEvent(bookId, 0, "uploading", NULL),
     StoreCall("storage.upload", fileName),
     ProgressEvent(bookId, 25, "uploading", NULL) >>

(* Lines 49-64: id, progress 0, key, progress 25, storage upload issued *)
UploadStartLog(bookId, fileName) ==
  << ProgressEvent(bookId, 0, "uploading", NULL),
     ProgressEvent(bookId, 25, "uploading", NULL),
     StoreCall("storage.upload", fileName) >>

(* Lines 66-70: upload succeeded, progress 50, public URL requested *)
UploadedLog(bookId, fileName) ==
  << StoreReply("storage.upload", TRUE),
     ProgressEvent(bookId, 50, "processing", NULL),
     StoreCall("storage.getPublicUrl", fileName) >>

(* Variant of UrlMissing: the URL is not checked *)
UrlMissingUnchecked(urlData) == FALSE

(* Line 72: !urlData?.publicUrl *)
UrlMissing(urlData) == urlData = NULL \/ urlData.publicUrl = <<>>

(* Line 78: metadata.title || file.name.replace('.pdf', '') *)
UploadTitle(file, metadata) ==
  IF "title" \in DOMAIN metadata /\ metadata.title # <<>>
  THEN metadata.title ELSE NameWithoutPdf(file)

(* Line 79: metadata.author || 'Unknown Author' *)
UploadAuthor(metadata) ==
  IF "author" \in DOMAIN metadata /\ metadata.author # ""
  THEN metadata.author ELSE "Unknown Author"

(* Lines 80-81: description and tags are passed on as given, and are       *)
(* undefined (absent) when the metadata lacks them                         *)
GivenFields(metadata) ==
  [f \in {"description", "tags"} \cap DOMAIN metadata |-> metadata[f]]

(* Variant of NewBookFields: pages counted from 0 *)
NewBookFieldsFromZero(bookId, file, metadata, publicUrl) ==
  GivenFields(metadata) @@
  [id |-> bookId, title |-> UploadTitle(file, metadata),
   author |-> UploadAuthor(metadata), fileSize |-> file.size,
   url |-> publicUrl, currentPage |-> 0, readingProgress |-> 0]

(* Lines 77-85: the Partial<Book> handed to toDb *)
NewBookFields(bookId, file, metadata, publicUrl) ==
  GivenFields(metadata) @@
  [id |-> bookId, title |-> UploadTitle(file, metadata),
   author |-> UploadAuthor(metadata), fileSize |-> file.size,
   url |-> publicUrl, currentPage |-> 1, readingProgress |-> 0]

(* Lines 74-92: progress 75, record built, insert issued *)
InsertStartLog(bookId, dbRecord) ==
  << StoreReply("storage.getPublicUrl", TRUE),
     ProgressEvent(bookId, 75, "processing", NULL),
     StoreCall("books.insert", dbRecord) >>

(* Lines 94-98: insert succeeded, progress 100 *)
InsertedLog(bookId) ==
  << StoreReply("books.insert", TRUE),
     ProgressEvent(bookId, 100, "completed", NULL) >>

(* Variant of UploadCatch: rethrows without reporting the error *)
UploadCatchSilent(up, op, message) ==
  [up EXCEPT !.log = @ \o << StoreReply(op, FALSE) >>,
             !.error = Some(message),
             !.pc = "raised"]

(* Lines 99-107: the catch block; op is the failed store operation *)
UploadCatch(up, op, message) ==
  [up EXCEPT !.log = @ \o << StoreReply(op, FALSE),
                             ProgressEvent(Val(up.bookId), 0, "error", Some(message)) >>,
             !.error = Some(message),
             !.pc = "raised"]

(* ------------------------- Library: upload flow ------------------------- *)
(* Library's isPreviewMode prop: App renders <Library> without it *)
isPreviewMode == FALSE

(* Variant of IsPdf: goes by the file name's extension *)
IsPdfByName(file) == Last(file.name) = "pdf"

(* handleFileSelect's test: file.type !== 'application/pdf' *)
IsPdf(file) == file.type = PdfType

(* tag.trim() on the tag texts used here *)
Trim(tag) == IF tag = " " THEN "" ELSE tag

(* formData.tags.split(',').map(tag => tag.trim()).filter(tag => tag) *)
ParseTags(parts) ==
  LET trimmed == [i \in 1..Len(parts) |-> Trim(parts[i])]
  IN SeqFilter(trimmed, {trimmed[i] : i \in 1..Len(trimmed)} \ {""})

(* The metadata object built by handleUploadSubmit *)
FormMetadata(form) ==
  [title |-> form.title, author |-> form.author,
   description |-> Some(form.description), tags |-> Some(ParseTags(form.tags))]

HandleFileSelect(file) ==
  /\ IF isPreviewMode
     THEN UNCHANGED libraryVars
     ELSE IF ~IsPdf(file)
     THEN /\ lastAlert' = "Please select a PDF file"
          /\ UNCHANGED <<uploadFile, showUploadForm, formData>>
     ELSE /\ uploadFile' = Some(file)
          /\ formData' = [title |-> NameWithoutPdf(file), author |-> "",
                          description |-> "", tags |-> <<"">>]
          /\ showUploadForm' = TRUE
          /\ UNCHANGED lastAlert
  /\ UNCHANGED <<books, bucket, clock, uploads, deletes, updates, gets,
      clientVars>>

(* onChange of a field of the metadata form *)
HandleFormChange(field, value) ==
  /\ showUploadForm /\ ~isPreviewMode
  /\ formData' = [formData EXCEPT ![field] = value]
  /\ UNCHANGED <<books, bucket, clock, uploads, deletes, updates, gets,
                 uploadFile, showUploadForm, lastAlert, clientVars>>

(* The form's Cancel button *)
CancelUploadForm ==
  /\ showUploadForm /\ ~isPreviewMode
  /\ showUploadForm' = FALSE
  /\ uploadFile' = NULL
  /\ formData' = EmptyForm
  /\ UNCHANGED <<books, bucket, clock, uploads, deletes, updates, gets,
                 lastAlert, clientVars>>

(* handleUploadSubmit up to the first await inside uploadBook.  The button *)
(* is part of the form and disabled while the title is blank.              *)
HandleUploadSubmit(u) ==
  /\ showUploadForm /\ ~isPreviewMode
  /\ formData.title # <<>>
  /\ FreeSlot(uploads, u)
  /\ IF uploadFile = NULL \/ isPreviewMode
     THEN UNCHANGED <<uploads, showUploadForm>>
     ELSE LET file == Val(uploadFile)
              bookId == generateId(u)
              fileName == FileName(bookId, FileExt(file))
          IN /\ showUploadForm' = FALSE
             /\ uploads' = [uploads EXCEPT ![u] =
                   [@ EXCEPT !.pc = "await_upload",
                             !.file = Some(file),
                             !.metadata = Some(FormMetadata(formData)),
                             !.bookId = Some(bookId),
                             !.fileName = Some(fileName),
                             !.log = UploadStartLog(bookId, fileName)]]
  /\ UNCHANGED <<books, bucket, clock, deletes, updates, gets,
                 uploadFile, formData, lastAlert, clientVars>>

(* handleUploadSubmit's catch block *)
UploadFailedUi ==
  /\ lastAlert' = "Failed to upload book. Please try again."
  /\ UNCHANGED <<uploadFile, showUploadForm, formData>>

(* The storage upload settles; on success uploadBook runs on to the insert *)
StorageUploadReply(u, ok, urlOk) ==
  LET up == uploads[u]
      bookId == Val(up.bookId)
      fileName == Val(up.fileName)
      urlData == IF urlOk THEN Some([publicUrl |-> PublicUrl(fileName)])
                 ELSE Some([publicUrl |-> <<>>])
      uploaded == [up EXCEPT !.log = @ \o UploadedLog(bookId, fileName)]
  IN /\ up.pc = "await_upload"
     /\ (fileName \in bucket) => ~ok          \* upsert: false
     /\ ok \/ urlOk                           \* urlOk is unused when the upload fails
     /\ IF ~ok
        THEN /\ uploads' = [uploads EXCEPT ![u] =
                              UploadCatch(up, "storage.upload", "File upload failed")]
             /\ UploadFailedUi
             /\ UNCHANGED bucket
        ELSE /\ bucket' = bucket \cup {fileName}
             /\ IF UrlMissing(Val(urlData))
                THEN /\ uploads' = [uploads EXCEPT ![u] =
                           UploadCatch(uploaded, "storage.getPublicUrl",
                                       "Failed to get file URL")]
                     /\ UploadFailedUi
                ELSE LET dbRecord == toDb(NewBookFields(bookId, Val(up.file),
                                            Val(up.metadata), Val(urlData).publicUrl))
                     IN /\ uploads' = [uploads EXCEPT ![u] =
                              [uploaded EXCEPT !.pc = "await_insert",
                                               !.dbRecord = Some(dbRecord),
                                               !.log = @ \o InsertStartLog(bookId, dbRecord)]]
                        /\ UNCHANGED libraryVars
     /\ UNCHANGED <<books, clock, deletes, updates, gets, clientVars>>

(* The insert settles; on success uploadBook returns the Book and          *)
(* handleUploadSubmit resets the form state.                               *)
InsertReply(u, ok) ==
  LET up == uploads[u]
      bookId == Val(up.bookId)
      dbRecord == Val(up.dbRecord)
      row == InsertRow(dbRecord, Uuid(u), clock)
  IN /\ up.pc = "await_insert"
     /\ ok => RequiredColumns \subseteq DOMAIN dbRecord
     /\ IF ~ok
        THEN /\ uploads' = [uploads EXCEPT ![u] =
                              UploadCatch(up, "books.insert", "Database insert failed")]
             /\ UploadFailedUi
             /\ UNCHANGED books
        ELSE /\ books' = books \cup {row}
             /\ uploads' = [uploads EXCEPT ![u] =
                   [up EXCEPT !.pc = "returned",
                              !.log = @ \o InsertedLog(bookId),
                              !.result = Some(fromDb(row))]]
             /\ uploadFile' = NULL
             /\ formData' = EmptyForm
             /\ UNCHANGED <<showUploadForm, lastAlert>>
     /\ UNCHANGED <<bucket, clock, deletes, updates, gets, clientVars>>

(* The row a completed upload u of the first PDF leaves in the table, its  *)
(* form submitted as filled in by handleFileSelect, inserted at time u % 2 *)
UploadedRow(u) ==
  LET file == CHOOSE f \in Files : IsPdf(f)
      form == [title |-> NameWithoutPdf(file), author |-> "",
               description |-> "", tags |-> <<"">>]
      bookId == generateId(u)
      fileName == FileName(bookId, FileExt(file))
  IN InsertRow(toDb(NewBookFields(bookId, file, FormMetadata(form), PublicUrl(fileName))),
               Uuid(u), u % 2)

(* ------------------------------ deleteBook ------------------------------ *)
RowsWithId(id) == {r \in books : r.id = id}

(* book.file_url.split('/').pop() *)
FilenameOfUrl(url) == IF url = <<>> THEN <<>> ELSE Last(url)

(* Variant of DeleteCatch: a failed record delete is not thrown, and the   *)
(* method goes on to remove the binary                                     *)
DeleteCatchContinues(del, op, message) ==
  IF op = "books.delete" /\ del.filename # NULL
  THEN [del EXCEPT !.log = @ \o <<StoreReply(op, FALSE),
                                  StoreCall("storage.remove", Val(del.filename))>>,
                   !.pc = "await_remove"]
  ELSE [del EXCEPT !.log = @ \o <<StoreReply(op, FALSE)>>,
                   !.error = Some(message),
                   !.pc = "raised"]

(* Lines 173-176: the catch block logs and rethrows *)
DeleteCatch(del, op, message) ==
  [del EXCEPT !.log = @ \o <<StoreReply(op, FALSE)>>,
              !.error = Some(message),
              !.pc = "raised"]

(* Variant of DeleteRemoveFailed: the storage error is thrown *)
DeleteRemoveFailedRaises(del) ==
  [del EXCEPT !.log = @ \o <<StoreReply("storage.remove", FALSE)>>,
              !.error = Some("Failed to delete file from storage"),
              !.pc = "raised"]

(* Line 171: a storage error is logged; the method then returns *)
DeleteRemoveFailed(del) ==
  [del EXCEPT !.log = @ \o <<StoreReply("storage.remove", FALSE)>>,
              !.pc = "returned"]

DeleteBookCall(d, bookId) ==
  /\ FreeSlot(deletes, d)
  /\ CallsStarted < MaxCalls
  /\ deletes' = [deletes EXCEPT ![d] =
        [@ EXCEPT !.pc = "await_lookup",
                  !.bookId = Some(bookId),
                  !.log = <<StoreCall("books.select", bookId)>>]]
  /\ UNCHANGED <<books, bucket, clock, uploads, updates, gets,
                 uploadFile, showUploadForm, formData, lastAlert, clientVars>>

(* select('file_url').eq('id', bookId).single() settles *)
DeleteLookupReply(d, ok) ==
  LET del == deletes[d]
      bookId == Val(del.bookId)
  IN /\ del.pc = "await_lookup"
     /\ ok => RowsWithId(bookId) # {}        \* .single() fails without a row
     /\ IF ~ok
        THEN /\ deletes' = [deletes EXCEPT ![d] =
                              DeleteCatch(del, "books.select", "Failed to fetch book")]
        ELSE LET book == CHOOSE r \in RowsWithId(bookId) : TRUE
             IN /\ deletes' = [deletes EXCEPT ![d] =
                     [del EXCEPT !.pc = "await_delete",
                                 !.filename = Some(FilenameOfUrl(book.file_url)),
                                 !.log = @ \o <<StoreReply("books.select", TRUE),
                                                StoreCall("books.delete", bookId)>>]]
     /\ UNCHANGED <<books, bucket, clock, uploads, updates, gets,
                    uploadFile, showUploadForm, formData, lastAlert,
                        clientVars>>

(* delete().eq('id', bookId) settles *)
DeleteRecordReply(d, ok) ==
  LET del == deletes[d]
      bookId == Val(del.bookId)
      filename == Val(del.filename)
  IN /\ del.pc = "await_delete"
     /\ IF ~ok
        THEN /\ deletes' = [deletes EXCEPT ![d] =
                              DeleteCatch(del, "books.delete", "Failed to delete book record")]
             /\ UNCHANGED books
        ELSE /\ books' = books \ RowsWithId(bookId)
             /\ deletes' = [deletes EXCEPT ![d] =
                   IF filename # <<>>
                   THEN [del EXCEPT !.pc = "await_remove",
                                    !.log = @ \o <<StoreReply("books.delete", TRUE),
                                                   StoreCall("storage.remove", filename)>>]
                   ELSE [del EXCEPT !.pc = "returned",
                                    !.log = @ \o <<StoreReply("books.delete", TRUE)>>]]
     /\ UNCHANGED <<bucket, clock, uploads, updates, gets,
                    uploadFile, showUploadForm, formData, lastAlert,
                        clientVars>>

(* storage remove([filename]) settles *)
DeleteRemoveReply(d, ok) ==
  LET del == deletes[d]
      filename == Val(del.filename)
  IN /\ del.pc = "await_remove"
     /\ IF ~ok
        THEN /\ deletes' = [deletes EXCEPT ![d] = DeleteRemoveFailed(del)]
             /\ UNCHANGED bucket
        ELSE /\ bucket' = bucket \ {filename}
             /\ deletes' = [deletes EXCEPT ![d] =
                   [del EXCEPT !.pc = "returned",
                               !.log = @ \o <<StoreReply("storage.remove", TRUE)>>]]
     /\ UNCHANGED <<books, clock, uploads, updates, gets,
                    uploadFile, showUploadForm, formData, lastAlert,
                        clientVars>>

(* ------------------------------ updateBook ------------------------------ *)
(* updates.lastRead ?? new Date().toISOString() *)
LastReadOrNow(upd, now) ==
  IF "lastRead" \in DOMAIN upd /\ upd.lastRead # NULL THEN upd.lastRead ELSE Some(now)

(* { ...updates, id: bookId } without the lastRead of line 134 *)
MergedUpdateWithoutLastRead(bookId, upd, now) ==
  [f \in (DOMAIN upd) \cup {"id"} |-> IF f = "id" THEN bookId ELSE upd[f]]

(* { ...updates, id: bookId, lastRead: ... } *)
MergedUpdate(bookId, upd, now) ==
  [f \in (DOMAIN upd) \cup {"id", "lastRead"} |->
     CASE f = "id" -> bookId
       [] f = "lastRead" -> LastReadOrNow(upd, now)
       [] OTHER -> upd[f]]

UpdateBookCall(p, bookId, upd) ==
  /\ FreeSlot(updates, p)
  /\ CallsStarted < MaxCalls
  /\ updates' = [updates EXCEPT ![p] =
        [@ EXCEPT !.pc = "await_update",
                  !.bookId = Some(bookId),
                  !.dbUpdates = Some(toDb(MergedUpdate(bookId, upd, clock)))]]
  /\ UNCHANGED <<books, bucket, clock, uploads, deletes, gets,
                 uploadFile, showUploadForm, formData, lastAlert, clientVars>>

(* update(dbUpdates).eq('id', bookId).select().single() settles *)
UpdateReply(p, ok) ==
  LET upd == updates[p]
      bookId == Val(upd.bookId)
  IN /\ upd.pc = "await_update"
     /\ ok => RowsWithId(bookId) # {}        \* .single() fails without a row
     /\ IF ~ok
        THEN /\ updates' = [updates EXCEPT ![p] =
                   [upd EXCEPT !.pc = "raised", !.error = Some("Failed to update book")]]
             /\ UNCHANGED books
        ELSE LET old == CHOOSE r \in RowsWithId(bookId) : TRUE
                 new == UpdateRow(old, Val(upd.dbUpdates))
             IN /\ books' = (books \ {old}) \cup {new}
                /\ updates' = [updates EXCEPT ![p] =
                      [upd EXCEPT !.pc = "returned", !.result = Some(fromDb(new))]]
     /\ UNCHANGED <<bucket, clock, uploads, deletes, gets,
                    uploadFile, showUploadForm, formData, lastAlert,
                        clientVars>>

(* ------------------------------- getBooks ------------------------------- *)
(* Variant of GetBooksOrder: nullsFirst left out of the first clause too *)
GetBooksOrderDefaultNulls ==
  << [column |-> "last_read", ascending |-> FALSE, nullsFirst |-> TRUE],
     [column |-> "created_at", ascending |-> FALSE, nullsFirst |-> TRUE] >>

(* The two .order(...) clauses of the query.  The second one gives no      *)
(* nullsFirst, which leaves the database default for a descending sort.    *)
GetBooksOrder ==
  << [column |-> "last_read", ascending |-> FALSE, nullsFirst |-> FALSE],
     [column |-> "created_at", ascending |-> FALSE, nullsFirst |-> TRUE] >>

(* The sort key of a row for a column, option-encoded *)
SortKey(row, column) ==
  IF column = "created_at" THEN Some(row.created_at) ELSE row[column]

(* ORDER BY of one clause: -1 when a sorts before b, 1 after, 0 when tied *)
CompareBy(a, b, clause) ==
  LET ka == SortKey(a, clause.column)
      kb == SortKey(b, clause.column)
  IN CASE ka = NULL /\ kb = NULL -> 0
       [] ka = NULL /\ kb # NULL -> IF clause.nullsFirst THEN -1 ELSE 1
       [] ka # NULL /\ kb = NULL -> IF clause.nullsFirst THEN 1 ELSE -1
       [] OTHER ->
            IF Val(ka) = Val(kb) THEN 0
            ELSE IF (Val(ka) < Val(kb)) = clause.ascending THEN -1 ELSE 1

(* ORDER BY of a list of clauses: the first clause that is not tied decides *)
RECURSIVE Compare(_, _, _)
Compare(a, b, clauses) ==
  IF clauses = <<>> THEN 0
  ELSE LET c == CompareBy(a, b, Head(clauses))
       IN IF c # 0 THEN c ELSE Compare(a, b, Tail(clauses))

(* The result sets a SELECT ... ORDER BY may deliver: every arrangement of *)
(* the rows in which no row comes after a row it sorts before.             *)
OrderedSelects(rows, clauses) ==
  LET n == Cardinality(rows)
  IN { s \in [1..n -> rows] :
         /\ \A i, j \in 1..n : i # j => s[i] # s[j]
         /\ \A i, j \in 1..n : i < j => Compare(s[i], s[j], clauses) <= 0 }

(* data.map(this.fromDb) *)
MapFromDb(data) == [i \in 1..Len(data) |-> fromDb(data[i])]

(* Variant of GetBooksCatch: the error is logged and rethrown *)
GetBooksCatchRethrows(get) ==
  [get EXCEPT !.pc = "raised", !.error = Some("Failed to fetch books"), !.logged = TRUE]

(* Lines 122-125: the catch block logs (console.error) and returns [] *)
GetBooksCatch(get) ==
  [get EXCEPT !.pc = "returned", !.result = Some(<<>>), !.logged = TRUE]

GetBooksCall(g) ==
  /\ FreeSlot(gets, g)
  /\ CallsStarted < MaxCalls
  /\ gets' = [gets EXCEPT ![g] = [@ EXCEPT !.pc = "await_select"]]
  /\ UNCHANGED <<books, bucket, clock, uploads, deletes, updates,
                 uploadFile, showUploadForm, formData, lastAlert, clientVars>>

(* The select settles: with rows, with an error result, or by throwing *)
GetBooksReply(g, outcome) ==
  LET get == gets[g]
  IN /\ get.pc = "await_select"
     /\ IF outcome = "ok"
        THEN /\ \E data \in OrderedSelects(books, GetBooksOrder) :
                  gets' = [gets EXCEPT ![g] =
                     [get EXCEPT !.pc = "returned", !.result = Some(MapFromDb(data))]]
        ELSE /\ gets' = [gets EXCEPT ![g] = GetBooksCatch(get)]
     /\ UNCHANGED <<books, bucket, clock, uploads, deletes, updates,
                    uploadFile, showUploadForm, formData, lastAlert,
                        clientVars>>

(* ---------------------------- specifications ---------------------------- *)
(* The upload flow, from an empty library *)
Next ==
  \/ \E file \in Files : HandleFileSelect(file)
  \/ \E e \in FormEdits : HandleFormChange(e[1], e[2])
  \/ CancelUploadForm
  \/ \E u \in 1..MaxUploads : HandleUploadSubmit(u)
  \/ \E u \in 1..MaxUploads, ok, urlOk \in BOOLEAN : StorageUploadReply(u, ok, urlOk)
  \/ \E u \in 1..MaxUploads, ok \in BOOLEAN : InsertReply(u, ok)

Spec == Init /\ [][Next]_vars

(* The service calls on a library of MaxBooks uploaded books *)
InitService ==
  /\ books = {UploadedRow(u) : u \in 1..MaxBooks}
  /\ bucket = {FilenameOfUrl(UploadedRow(u).file_url) : u \in 1..MaxBooks}
  /\ clock = 1
  /\ uploads = [u \in 1..MaxUploads |-> IdleUpload]
  /\ deletes = [d \in 1..MaxDeletes |-> IdleDelete]
  /\ updates = [p \in 1..MaxUpdates |-> IdleUpdate]
  /\ gets = [g \in 1..MaxGets |-> IdleGet]
  /\ uploadFile = NULL
  /\ showUploadForm = FALSE
  /\ formData = EmptyForm
  /\ lastAlert = ""
  /\ ClientIdle

NextService ==
  \/ Tick
  \/ \E d \in 1..MaxDeletes, id \in BookIds : DeleteBookCall(d, id)
  \/ \E d \in 1..MaxDeletes, ok \in BOOLEAN : DeleteLookupReply(d, ok)
  \/ \E d \in 1..MaxDeletes, ok \in BOOLEAN : DeleteRecordReply(d, ok)
  \/ \E d \in 1..MaxDeletes, ok \in BOOLEAN : DeleteRemoveReply(d, ok)
  \/ \E p \in 1..MaxUpdates, id \in BookIds, upd \in UpdateInputs : UpdateBookCall(p, id, upd)
  \/ \E p \in 1..MaxUpdates, ok \in BOOLEAN : UpdateReply(p, ok)
  \/ \E g \in 1..MaxGets : GetBooksCall(g)
  \/ \E g \in 1..MaxGets, outcome \in {"ok", "error", "throw"} : GetBooksReply(g, outcome)

SpecService == InitService /\ [][NextService]_vars

(* --------------------------- record <-> Book --------------------------- *)
(* The fields Book.ts marks optional *)
OptionalFields ==
  {"totalPages", "description", "tags", "lastRead", "currentPage", "readingProgress"}

(* Books with every field present *)
FullBooks ==
  { [fromDb(UploadedRow(1)) EXCEPT !.description = d, !.tags = t,
                                   !.totalPages = n, !.lastRead = l,
                                   !.currentPage = 2, !.readingProgress = Percent(50)]
      : d \in {Some(""), Some("epic")}, t \in {Some(<<>>), Some(<<"fiction">>)},
        n \in {Some(0), Some(3)}, l \in {NULL, Some(1)} }

Without(b, absent) == [f \in (DOMAIN b) \ absent |-> b[f]]

(* Books with any of the optional fields absent *)
MappingBooks == {Without(b, absent) : b \in FullBooks, absent \in SUBSET OptionalFields}

(* A Book is converted to a record and back *)
InitMapping ==
  /\ ServiceIdle
  /\ mapBook \in {Some(b) : b \in MappingBooks}
  /\ mapResult = NULL
  /\ SearchIdle /\ AppIdle /\ viewer = NoViewer /\ GateIdle

RoundTrip ==
  /\ mapResult = NULL
  /\ mapResult' = Some(fromDb(toDb(Val(mapBook))))
  /\ UNCHANGED <<serviceVars, mapBook, searchVars, appVars, viewer, gateVars>>

NextMapping == RoundTrip

SpecMapping == InitMapping /\ [][NextMapping]_vars

(* ---------------------------- Library search --------------------------- *)
(* Text is a sequence of characters here.  Upper-case letter -> lower-case *)
LowerCase == [D |-> "d", F |-> "f", H |-> "h", I |-> "i", C |-> "c", S |-> "s"]

toLowerCaseChar(c) == IF c \in DOMAIN LowerCase THEN LowerCase[c] ELSE c

(* String.prototype.toLowerCase *)
toLowerCase(text) == [k \in 1..Len(text) |-> toLowerCaseChar(text[k])]

(* String.prototype.includes *)
includes(text, q) ==
  \E k \in 0..(Len(text) - Len(q)) : SubSeq(text, k + 1, k + Len(q)) = q

(* The predicate of filteredBooks without lower-casing the query *)
FilterKeepsQueryAsTyped(book, query) ==
  \/ query = <<>>
  \/ LET q == query
     IN \/ includes(toLowerCase(book.title), q)
        \/ includes(toLowerCase(book.author), q)
        \/ /\ "tags" \in DOMAIN book /\ book.tags # NULL
           /\ \E k \in 1..Len(Val(book.tags)) : includes(toLowerCase(Val(book.tags)[k]), q)

(* The predicate of filteredBooks: !searchQuery, or q found in the title,  *)
(* the author or (when the book has tags) some tag                         *)
FilterKeeps(book, query) ==
  \/ query = <<>>
  \/ LET q == toLowerCase(query)
     IN \/ includes(toLowerCase(book.title), q)
        \/ includes(toLowerCase(book.author), q)
        \/ /\ "tags" \in DOMAIN book /\ book.tags # NULL
           /\ \E k \in 1..Len(Val(book.tags)) : includes(toLowerCase(Val(book.tags)[k]), q)

(* books.filter(...) *)
RECURSIVE FilterBooks(_, _)
FilterBooks(shelf, query) ==
  IF shelf = <<>> THEN <<>>
  ELSE IF FilterKeeps(Head(shelf), query)
       THEN <<Head(shelf)>> \o FilterBooks(Tail(shelf), query)
       ELSE FilterBooks(Tail(shelf), query)

(* Books of the in-memory collection, as fromDb hands them out *)
SearchBooks ==
  { [id |-> Uuid(1), title |-> <<"D", "u", "n", "e">>, author |-> <<"H", "e", "r", "b", "e", "r", "t">>, tags |-> Some(<<>>)],
    [id |-> Uuid(2), title |-> <<"H", "y", "p", "e", "r", "i", "o", "n">>, author |-> <<"S", "i", "m", "m", "o", "n", "s">>,
     tags |-> Some(<<<<"f", "i", "c", "t", "i", "o", "n">>, <<"s", "c", "i", "f", "i">>>>)],
    [id |-> Uuid(3), title |-> <<"I", "c", "e", "f", "a", "l", "l">>, author |-> <<"d", "u", "n", "m", "o", "r", "e">>, tags |-> Some(<<<<"F", "i", "c", "t", "i", "o", "n">>>>)] }

(* The collections the Library may be given: the books in any order *)
Shelves ==
  {shelf \in UNION {[1..n -> SearchBooks] : n \in 0..Cardinality(SearchBooks)} :
     \A j, k \in DOMAIN shelf : j # k => shelf[j] # shelf[k]}

(* What may be typed into the search field *)
SearchQueries ==
  { <<>>, <<"f", "i", "c">>, <<"F", "I", "C">>, <<"d", "u">>, <<"D", "u", "n">>, <<"o", "n">>, <<"e">>, <<"x", "y", "z">>, <<"s", "i", "m", "m", "o", "n", "s">> }

InitSearch ==
  /\ ServiceIdle
  /\ MappingIdle
  /\ appBooks \in Shelves
  /\ selectedBook = NULL
  /\ bookUpdates = [p \in 1..MaxUpdates |-> NULL]
  /\ searchQuery = <<>>
  /\ filteredBooks = FilterBooks(appBooks, <<>>)
  /\ viewer = NoViewer
  /\ GateIdle

(* onChange of the search field, and the useMemo that follows it *)
HandleSearchChange(query) ==
  /\ searchQuery' = query
  /\ filteredBooks' = FilterBooks(appBooks, query)
  /\ UNCHANGED <<serviceVars, mappingVars, appVars, viewer, gateVars>>

NextSearch == \E query \in SearchQueries : HandleSearchChange(query)

SpecSearch == InitSearch /\ [][NextSearch]_vars

(* ------------------------------- PinGate ------------------------------- *)
(* Text is a sequence of one-character strings.  import.meta.env.VITE_LOGIN_PIN *)
correctPin == <<"1", "2">>

(* Longest PIN kept: slice(0, 9) *)
PinMaxLength == 9

Digits == {"0", "1", "2", "3", "4", "5", "6", "7", "8", "9"}

(* Keys of the keyboard that are pressed *)
Keys == {"1", "2", "a"}

(* text.slice(0, n) *)
Slice(text, n) == SubSeq(text, 1, IF Len(text) < n THEN Len(text) ELSE n)

(* value.replace(/\D/g, "") *)
DigitsOnly(text) == SeqFilter(text, Digits)

(* What PinGate renders *)
GateShows ==
  IF pin = correctPin THEN "app"
  ELSE IF gatePreview THEN "preview"
  ELSE "gate"

(* Values the PIN field can hand to onChange: a character typed at the     *)
(* end (up to maxLength) or the last character erased                      *)
PinFieldEdits ==
  {pin \o <<k>> : k \in IF Len(pin) < PinMaxLength THEN Keys ELSE {}}
    \cup (IF pin = <<>> THEN {} ELSE {SubSeq(pin, 1, Len(pin) - 1)})

InitGate ==
  /\ ServiceIdle
  /\ MappingIdle /\ SearchIdle /\ AppIdle
  /\ viewer = NoViewer
  /\ pin = <<>>
  /\ isMobile \in BOOLEAN        \* checkMobile() on mount
  /\ showInput = FALSE
  /\ gatePreview = FALSE

(* resize: setIsMobile(window.innerWidth < 640) *)
CheckMobile(narrow) ==
  /\ isMobile' = narrow
  /\ UNCHANGED <<serviceVars, mappingVars, searchVars, appVars, viewer,
                 pin, showInput, gatePreview>>

(* keydown on window; the listener is installed while !isMobile, whatever  *)
(* PinGate renders                                                         *)
HandleKeyDown(key) ==
  /\ ~isMobile
  /\ pin' = IF key \in Digits THEN Slice(pin \o <<key>>, PinMaxLength) ELSE pin
  /\ UNCHANGED <<serviceVars, mappingVars, searchVars, appVars, viewer,
                 isMobile, showInput, gatePreview>>

(* "Guess the PIN!" button of the mobile gate *)
ShowInputClick ==
  /\ GateShows = "gate" /\ isMobile /\ ~showInput
  /\ showInput' = TRUE
  /\ UNCHANGED <<serviceVars, mappingVars, searchVars, appVars, viewer,
                 pin, isMobile, gatePreview>>

(* onChange of the PIN field of the mobile gate *)
HandlePinChange(value) ==
  /\ GateShows = "gate" /\ isMobile /\ showInput
  /\ pin' = Slice(DigitsOnly(value), PinMaxLength)
  /\ UNCHANGED <<serviceVars, mappingVars, searchVars, appVars, viewer,
                 isMobile, showInput, gatePreview>>

(* The preview button of the gate *)
PreviewClick ==
  /\ GateShows = "gate"
  /\ gatePreview' = TRUE
  /\ UNCHANGED <<serviceVars, mappingVars, searchVars, appVars, viewer,
                 pin, isMobile, showInput>>

NextGate ==
  \/ \E narrow \in BOOLEAN : CheckMobile(narrow)
  \/ \E key \in Keys : HandleKeyDown(key)
  \/ ShowInputClick
  \/ \E value \in PinFieldEdits : HandlePinChange(value)
  \/ PreviewClick

SpecGate == InitGate /\ [][NextGate]_vars

(* ------------------------- App and ReadingArea ------------------------- *)
(* Identifiers of the books on the reader's shelf *)
ShelfIds == {Uuid(u) : u \in 1..MaxShelf}

(* pdf.numPages of the document stored for a book: MaxPages pages for the  *)
(* odd uploads, one page fewer for the even ones                           *)
NumPages(id) == IF id[2] % 2 = 1 THEN MaxPages ELSE MaxPages - 1

(* book.currentPage || 1 *)
OrOne(n) == IF n = 0 THEN 1 ELSE n

(* What PDFViewer reads of its `book` prop *)
BookProp(book) == [id |-> book.id, url |-> book.url, currentPage |-> book.currentPage]

(* The book whose binary is stored under a public URL *)
BookOfUrl(url) == CHOOSE id \in ShelfIds : \E r \in books : r.id = id /\ r.file_url = url

(* The user zoom level, in hundredths: useState(1) *)
InitialScale == 100

(* useState initial values of PDFViewer, mounted for `book`; pc is the     *)
(* stage of loading: "script" (pdf.js being fetched), "noengine" (its      *)
(* request failed), "loading" (inside loadPDF), "ready" (document shown)   *)
(* or "failed" (error shown); canvas is the page drawn on the canvas of    *)
(* single mode (0: none), effectPage the currentPage that the effect of    *)
(* lines 66-71 last ran for, pageRenders the renderPage calls in progress; *)
(* fractions[p] is the visible fraction of page                            *)
(* p's element in the scroll container; renders[p] is the state of the last*)
(* page.render promise that the effect of lines 145-153 started for page p *)
MountedViewer(book) ==
  [mounted |-> TRUE, pc |-> "script", mountBook |-> BookProp(book), loadBook |-> NULL,
   pdfDoc |-> NULL, currentPage |-> OrOne(book.currentPage), totalPages |-> 0,
   viewMode |-> "single", renderedPages |-> {}, visiblePages |-> {1},
   scrollAt |-> 0, observerBook |-> NULL, jump |-> NULL, scale |-> InitialScale,
   canvas |-> 0, effectPage |-> 0, pageRenders |-> {},
   fractions |-> [p \in 1..MaxPages |-> 0],
   renders |-> [p \in 1..MaxPages |-> "none"]]

(* Variant of ReplaceById: every entry becomes b *)
ReplaceEvery(shelf, b) == [k \in DOMAIN shelf |-> b]

(* setBooks(prev => prev.map(book => book.id === b.id ? b : book)) *)
ReplaceById(shelf, b) ==
  [k \in DOMAIN shelf |-> IF shelf[k].id = b.id THEN b ELSE shelf[k]]

(* handlePageChange without the progress computation: readingProgress of  *)
(* the selected book is carried over                                       *)
UpdatedBookKeepsProgress(book, currentPage, totalPages, now) ==
  [book EXCEPT !.currentPage = currentPage, !.lastRead = Some(now)]

(* ReadingArea.handlePageChange: the Book handed to onBookUpdate *)
UpdatedBook(book, currentPage, totalPages, now) ==
  [book EXCEPT !.currentPage = currentPage,
               !.readingProgress = PageProgress(currentPage, totalPages),
               !.lastRead = Some(now)]

(* onPageChange(currentPage, totalPages) with `book` the selectedBook of   *)
(* the render the callback comes from: handlePageChange, then              *)
(* handleBookUpdate up to its await of updateBook                          *)
PageChange(currentPage, totalPages, book) ==
  \E p \in 1..MaxUpdates :
    LET updatedBook == UpdatedBook(book, currentPage, totalPages, clock)
    IN /\ FreeSlot(updates, p)
       /\ updates' = [updates EXCEPT ![p] =
             [@ EXCEPT !.pc = "await_update",
                       !.bookId = Some(updatedBook.id),
                       !.dbUpdates =
                         Some(toDb(MergedUpdate(updatedBook.id, updatedBook, clock)))]]
       /\ bookUpdates' = [bookUpdates EXCEPT ![p] =
             Some([updatedBook |-> updatedBook, closureSelected |-> Some(book.id)])]

NoPageChange == UNCHANGED <<updates, bookUpdates>>

(* The number of handleBookUpdate calls that await updateBook *)
InFlight(calls) == Cardinality({q \in 1..MaxUpdates : calls[q] # NULL})

(* The step leaves at most MaxInFlight calls of handleBookUpdate waiting *)
Throttled == InFlight(bookUpdates') <= MaxInFlight

(* The application once initializeApp has loaded the library *)
InitReader ==
  /\ books = {UploadedRow(u) : u \in 1..MaxShelf}
  /\ bucket = {FilenameOfUrl(UploadedRow(u).file_url) : u \in 1..MaxShelf}
  /\ clock = 1
  /\ uploads = [u \in 1..MaxUploads |-> IdleUpload]
  /\ deletes = [d \in 1..MaxDeletes |-> IdleDelete]
  /\ updates = [p \in 1..MaxUpdates |-> IdleUpdate]
  /\ gets = [g \in 1..MaxGets |-> IdleGet]
  /\ uploadFile = NULL
  /\ showUploadForm = FALSE
  /\ formData = EmptyForm
  /\ lastAlert = ""
  /\ MappingIdle
  /\ appBooks \in {MapFromDb(data) : data \in OrderedSelects(books, GetBooksOrder)}
  /\ selectedBook = NULL
  /\ bookUpdates = [p \in 1..MaxUpdates |-> NULL]
  /\ searchQuery = <<>>
  /\ filteredBooks = appBooks
  /\ viewer = NoViewer
  /\ GateIdle

readerFrame == <<bucket, clock, uploads, deletes, gets, uploadFile, showUploadForm,
                 formData, lastAlert, mappingVars, searchQuery, gateVars>>

(* Library.handleBookClick -> App.handleBookSelect; ReadingArea mounts *)
HandleBookSelect(k) ==
  /\ selectedBook = NULL
  /\ k \in DOMAIN appBooks
  /\ selectedBook' = Some(appBooks[k])
  /\ viewer' = MountedViewer(appBooks[k])
  /\ UNCHANGED <<books, updates, bookUpdates, appBooks, filteredBooks, readerFrame>>

(* Close button -> App.handleBookClose; ReadingArea unmounts *)
HandleBookClose ==
  /\ viewer.mounted /\ viewer.pc = "ready"
  /\ selectedBook' = NULL
  /\ viewer' = NoViewer
  /\ UNCHANGED <<books, updates, bookUpdates, appBooks, filteredBooks, readerFrame>>

(* handleBookUpdate after its await: updateBook has returned a Book (ok)   *)
(* or raised.  `selectedBook` in the handler is the one of the render the  *)
(* handler was made in.                                                    *)
BookUpdateSettle(p, ok) ==
  LET upd == updates[p]
      call == Val(bookUpdates[p])
      old == CHOOSE r \in RowsWithId(Val(upd.bookId)) : TRUE
      new == UpdateRow(old, Val(upd.dbUpdates))
      shown == IF ok THEN fromDb(new) ELSE call.updatedBook
  IN /\ upd.pc = "await_update"
     /\ bookUpdates[p] # NULL
     /\ ok => RowsWithId(Val(upd.bookId)) # {}
     /\ books' = IF ok THEN (books \ {old}) \cup {new} ELSE books
     /\ appBooks' = ReplaceById(appBooks, shown)
     /\ filteredBooks' = FilterBooks(appBooks', searchQuery)
     /\ IF call.closureSelected # NULL /\ Val(call.closureSelected) = shown.id
        THEN /\ selectedBook' = Some(shown)
             /\ viewer' = IF viewer.mounted THEN viewer ELSE MountedViewer(shown)
        ELSE UNCHANGED <<selectedBook, viewer>>
     /\ updates' = [updates EXCEPT ![p] = IdleUpdate]
     /\ bookUpdates' = [bookUpdates EXCEPT ![p] = NULL]
     /\ UNCHANGED readerFrame

(* ------------------------------ PDFViewer ------------------------------ *)
viewerFrame == <<books, appBooks, selectedBook, filteredBooks, readerFrame>>

(* script.onload: pdf.js is there, loadPDF() of the first render is called *)
ScriptLoaded ==
  /\ viewer.mounted /\ viewer.pc = "script"
  /\ viewer' = [viewer EXCEPT !.pc = "loading", !.loadBook = Some(viewer.mountBook)]
  /\ NoPageChange
  /\ UNCHANGED viewerFrame

(* loadPDF after its await of getDocument(book.url), and the effect of     *)
(* lines 66-71 that the new pdfDoc triggers                                *)
LoadPdfReply(ok) ==
  /\ viewer.mounted /\ viewer.pc = "loading"
  /\ IF ok
     THEN LET book == Val(viewer.loadBook)
              total == NumPages(BookOfUrl(book.url))
              page == OrOne(book.currentPage)
          IN /\ viewer' = [viewer EXCEPT !.pc = "ready",
                                         !.pdfDoc = Some(BookOfUrl(book.url)),
                                         !.totalPages = total, !.currentPage = page]
             /\ IF page <= total /\ viewer.viewMode = "single"
                THEN PageChange(page, total, Val(selectedBook))
                ELSE NoPageChange
     ELSE /\ viewer' = [viewer EXCEPT !.pc = "failed"]
          /\ NoPageChange
  /\ UNCHANGED viewerFrame

(* Retry button: loadPDF() of the current render *)
RetryClick ==
  /\ viewer.mounted /\ viewer.pc = "failed"
  /\ viewer' = [viewer EXCEPT !.pc = "loading",
                             !.loadBook = Some(BookProp(Val(selectedBook)))]
  /\ NoPageChange
  /\ UNCHANGED viewerFrame

(* scrollToPage(pageNum) up to its first await.  A jump is the call in     *)
(* progress: stage "render" (awaiting renderScrollPage), "raf" (awaiting   *)
(* the animation frame); attached: its container is still the one shown    *)
StartJump(pageNum) ==
  [page |-> pageNum,
   stage |-> IF pageNum \in viewer.renderedPages THEN "raf" ELSE "render",
   attached |-> TRUE]

(* goToPage(pageNum), and the effect of lines 66-71 when the page changes  *)
(* in single mode.  One scrollToPage is followed at a time.                *)
GoToPage(pageNum) ==
  IF pageNum >= 1 /\ pageNum <= viewer.totalPages
  THEN IF viewer.viewMode = "scroll"
       THEN /\ viewer.jump = NULL
            /\ viewer' = [viewer EXCEPT !.currentPage = pageNum,
                                       !.jump = Some(StartJump(pageNum))]
            /\ NoPageChange
       ELSE /\ viewer' = [viewer EXCEPT !.currentPage = pageNum]
            /\ IF pageNum # viewer.currentPage
               THEN PageChange(pageNum, viewer.totalPages, Val(selectedBook))
               ELSE NoPageChange
  ELSE UNCHANGED <<viewer, updates, bookUpdates>>

(* Previous button (disabled on page 1) *)
PrevClick ==
  /\ viewer.mounted /\ viewer.pc = "ready"
  /\ viewer.currentPage > 1
  /\ GoToPage(viewer.currentPage - 1)
  /\ UNCHANGED viewerFrame

(* Next button (disabled on the last page) *)
NextClick ==
  /\ viewer.mounted /\ viewer.pc = "ready"
  /\ viewer.currentPage < viewer.totalPages
  /\ GoToPage(viewer.currentPage + 1)
  /\ UNCHANGED viewerFrame

(* handleWheel, listening while the mode is single; deltaY is 1 or -1 *)
HandleWheel(deltaY) ==
  /\ viewer.mounted /\ viewer.viewMode = "single"
  /\ GoToPage(IF deltaY > 0 THEN viewer.currentPage + 1 ELSE viewer.currentPage - 1)
  /\ UNCHANGED viewerFrame

(* handleTap on the single-page canvas: left or right half of the window *)
HandleTap(left) ==
  /\ viewer.mounted /\ viewer.pc = "ready" /\ viewer.viewMode = "single"
  /\ GoToPage(IF left THEN viewer.currentPage - 1 ELSE viewer.currentPage + 1)
  /\ UNCHANGED viewerFrame

(* The value of a decimal digit *)
DigitValue ==
  [c \in Digits |->
     CASE c = "0" -> 0 [] c = "1" -> 1 [] c = "2" -> 2 [] c = "3" -> 3 [] c = "4" -> 4
       [] c = "5" -> 5 [] c = "6" -> 6 [] c = "7" -> 7 [] c = "8" -> 8 [] c = "9" -> 9]

(* The digits a text starts with *)
RECURSIVE LeadingDigits(_)
LeadingDigits(text) ==
  IF text = <<>> \/ Head(text) \notin Digits THEN <<>>
  ELSE <<Head(text)>> \o LeadingDigits(Tail(text))

(* The number that a string of decimal digits denotes *)
RECURSIVE DecimalValue(_)
DecimalValue(digits) ==
  IF digits = <<>> THEN 0
  ELSE 10 * DecimalValue(SubSeq(digits, 1, Len(digits) - 1)) + DigitValue[Last(digits)]

(* parseInt: an optional sign and the digits that follow it; NULL is NaN *)
ParseInt(text) ==
  LET negative == text # <<>> /\ Head(text) = "-"
      digits == LeadingDigits(IF negative THEN Tail(text) ELSE text)
  IN IF digits = <<>> THEN NULL
     ELSE Some(IF negative THEN 0 - DecimalValue(digits) ELSE DecimalValue(digits))

(* What the page field may hold when it changes *)
PageTexts ==
  { <<>>, <<"0">>, <<"1">>, <<"2">>, <<"3">>, <<"4">>, <<"1", "0">>, <<"-", "1">>,
    <<"2", ".", "5">>, <<"e">> }

(* handlePageInput *)
HandlePageInput(text) ==
  /\ viewer.mounted /\ viewer.pc = "ready"
  /\ IF ParseInt(text) # NULL
     THEN GoToPage(Val(ParseInt(text)))
     ELSE UNCHANGED <<viewer, updates, bookUpdates>>
  /\ UNCHANGED viewerFrame

(* toggleViewMode, with the effects that the new mode triggers: towards    *)
(* scroll a new container (at its top) and observer and the timer of the   *)
(* jump; towards single the effect of lines 66-71                          *)
ToggleViewMode ==
  /\ viewer.mounted /\ viewer.pc = "ready"
  /\ IF viewer.viewMode = "single"
     THEN /\ viewer.jump = NULL
          /\ viewer' = [viewer EXCEPT
                !.viewMode = "scroll", !.renderedPages = {},
                !.visiblePages = {viewer.currentPage}, !.scrollAt = 0,
                !.observerBook = selectedBook,
                !.jump = Some([page |-> viewer.currentPage, stage |-> "timer",
                               attached |-> TRUE,
                               rendered |-> viewer.currentPage \in viewer.renderedPages])]
          /\ NoPageChange
     ELSE /\ viewer' = [viewer EXCEPT
                !.viewMode = "single", !.renderedPages = {},
                !.visiblePages = {viewer.currentPage}, !.observerBook = NULL,
                !.jump = IF viewer.jump = NULL \/ Val(viewer.jump).stage = "timer"
                         THEN viewer.jump
                         ELSE Some([Val(viewer.jump) EXCEPT !.attached = FALSE])]
          /\ IF viewer.currentPage <= viewer.totalPages
             THEN PageChange(viewer.currentPage, viewer.totalPages, Val(selectedBook))
             ELSE NoPageChange
  /\ UNCHANGED viewerFrame

(* The timer of toggleViewMode fires after 150 ms: scrollToPage of the     *)
(* render that set it, up to its first await                               *)
JumpTimerFires ==
  /\ viewer.mounted /\ viewer.jump # NULL /\ Val(viewer.jump).stage = "timer"
  /\ viewer' = [viewer EXCEPT !.jump =
        IF viewer.viewMode # "scroll" THEN NULL        \* no container: return
        ELSE Some([page |-> Val(viewer.jump).page,
                   stage |-> IF Val(viewer.jump).rendered THEN "raf" ELSE "render",
                   attached |-> TRUE])]
  /\ NoPageChange
  /\ UNCHANGED viewerFrame

(* renderScrollPage inside scrollToPage settles: the page is added to      *)
(* renderedPages, or the failure is logged                                 *)
JumpRenderSettles(ok) ==
  /\ viewer.mounted /\ viewer.jump # NULL /\ Val(viewer.jump).stage = "render"
  /\ viewer' = [viewer EXCEPT
        !.jump = Some([Val(viewer.jump) EXCEPT !.stage = "raf"]),
        !.renderedPages = IF ok THEN @ \cup {Val(viewer.jump).page} ELSE @]
  /\ NoPageChange
  /\ UNCHANGED viewerFrame

(* Variant of JumpScrolls: scrollToPage ends without scrolling *)
JumpEndsUnscrolled ==
  /\ viewer.mounted /\ viewer.jump # NULL /\ Val(viewer.jump).stage = "raf"
  /\ viewer' = [viewer EXCEPT !.jump = NULL]
  /\ NoPageChange
  /\ UNCHANGED viewerFrame

(* The animation frame of scrollToPage: container.scrollTo the page *)
JumpScrolls ==
  /\ viewer.mounted /\ viewer.jump # NULL /\ Val(viewer.jump).stage = "raf"
  /\ viewer' = [viewer EXCEPT
        !.jump = NULL,
        !.scrollAt = IF Val(viewer.jump).attached THEN Val(viewer.jump).page ELSE @]
  /\ NoPageChange
  /\ UNCHANGED viewerFrame

(* The effect of lines 145-153 has rendered a visible page *)
RenderVisiblePage(pageNum) ==
  /\ viewer.mounted /\ viewer.pc = "ready" /\ viewer.viewMode = "scroll"
  /\ pageNum \in viewer.visiblePages \ viewer.renderedPages
  /\ viewer' = [viewer EXCEPT !.renderedPages = @ \cup {pageNum}]
  /\ NoPageChange
  /\ UNCHANGED viewerFrame

(* Least visible fraction, in percent, that a page must exceed to become   *)
(* the current page                                                        *)
VisibleThreshold == 10

(* Variant of VisibleEnough: the threshold itself is enough *)
AtLeastThreshold(ratio) == ratio >= VisibleThreshold

(* maxRatio > 0.1 *)
VisibleEnough(ratio) == ratio > VisibleThreshold

(* Visible fractions, in percent, that the observer reports *)
Ratios == {5, 10, 15}

(* An IntersectionObserverEntry for a page element: the page has left  *)
(* the viewport, or it intersects it with a visible fraction               *)
Entries(totalPages) ==
  [page : 1..totalPages, isIntersecting : {FALSE}, intersectionRatio : {0}]
    \cup [page : 1..totalPages, isIntersecting : {TRUE}, intersectionRatio : Ratios]

(* The lists of entries one call of the observer's callback may get: one   *)
(* entry, or two pages that both intersect                                 *)
EntryLists(totalPages) ==
  {<<e>> : e \in Entries(totalPages)}
    \cup {<<pair[1], pair[2]>> :
            pair \in {q \in Entries(totalPages) \X Entries(totalPages) :
                        /\ q[1].page # q[2].page
                        /\ q[1].isIntersecting /\ q[2].isIntersecting}}

(* The lists of entries about pages of documents of up to MaxPages pages *)
AllEntryLists == EntryLists(MaxPages)

(* visiblePages after the entries.forEach of the callback *)
RECURSIVE VisibleAfter(_, _)
VisibleAfter(visible, entries) ==
  IF entries = <<>> THEN visible
  ELSE VisibleAfter(IF Head(entries).isIntersecting
                    THEN visible \cup {Head(entries).page}
                    ELSE visible \ {Head(entries).page},
                    Tail(entries))

(* <<maxRatio, maxPage>> after the entries.forEach of the callback *)
RECURSIVE MostVisible(_, _)
MostVisible(best, entries) ==
  IF entries = <<>> THEN best
  ELSE MostVisible(IF Head(entries).isIntersecting
                      /\ Head(entries).intersectionRatio > best[1]
                   THEN <<Head(entries).intersectionRatio, Head(entries).page>>
                   ELSE best,
                   Tail(entries))

(* The IntersectionObserver callback of scroll mode *)
ObserverCallback(entries) ==
  /\ viewer.mounted /\ viewer.pc = "ready" /\ viewer.viewMode = "scroll"
  /\ \A i \in DOMAIN entries : entries[i].page <= viewer.totalPages
  /\ LET best == MostVisible(<<0, viewer.currentPage>>, entries)
     IN IF VisibleEnough(best[1])
        THEN /\ viewer' = [viewer EXCEPT
                   !.visiblePages = VisibleAfter(@, entries),
                   !.currentPage = best[2]]
             /\ PageChange(best[2], viewer.totalPages, Val(viewer.observerBook))
        ELSE /\ viewer' = [viewer EXCEPT !.visiblePages = VisibleAfter(@, entries)]
             /\ NoPageChange
  /\ UNCHANGED viewerFrame

(* The application with the viewer kept in single mode *)
NextReader ==
  \/ \E k \in 1..MaxShelf : HandleBookSelect(k) /\ Throttled
  \/ HandleBookClose /\ Throttled
  \/ \E p \in 1..MaxUpdates, ok \in BOOLEAN : BookUpdateSettle(p, ok) /\ Throttled
  \/ ScriptLoaded /\ Throttled
  \/ \E ok \in BOOLEAN : LoadPdfReply(ok) /\ Throttled
  \/ RetryClick /\ Throttled
  \/ PrevClick /\ Throttled
  \/ NextClick /\ Throttled
  \/ \E deltaY \in {-1, 1} : HandleWheel(deltaY) /\ Throttled
  \/ \E left \in BOOLEAN : HandleTap(left) /\ Throttled
  \/ \E text \in PageTexts : HandlePageInput(text) /\ Throttled

SpecReader == InitReader /\ [][NextReader]_vars

(* The application once initializeApp has loaded a library that holds only *)
(* the latest upload                                                       *)
InitSession ==
  /\ books = {UploadedRow(MaxShelf)}
  /\ bucket = {FilenameOfUrl(UploadedRow(MaxShelf).file_url)}
  /\ clock = 1
  /\ uploads = [u \in 1..MaxUploads |-> IdleUpload]
  /\ deletes = [d \in 1..MaxDeletes |-> IdleDelete]
  /\ updates = [p \in 1..MaxUpdates |-> IdleUpdate]
  /\ gets = [g \in 1..MaxGets |-> IdleGet]
  /\ uploadFile = NULL
  /\ showUploadForm = FALSE
  /\ formData = EmptyForm
  /\ lastAlert = ""
  /\ MappingIdle
  /\ appBooks \in {MapFromDb(data) : data \in OrderedSelects(books, GetBooksOrder)}
  /\ selectedBook = NULL
  /\ bookUpdates = [p \in 1..MaxUpdates |-> NULL]
  /\ searchQuery = <<>>
  /\ filteredBooks = appBooks
  /\ viewer = NoViewer
  /\ GateIdle

(* One reading session: the book is opened and read in either mode *)
NextSession ==
  \/ \E k \in 1..MaxShelf : HandleBookSelect(k) /\ Throttled
  \/ \E p \in 1..MaxUpdates, ok \in BOOLEAN : BookUpdateSettle(p, ok) /\ Throttled
  \/ ScriptLoaded /\ Throttled
  \/ \E ok \in BOOLEAN : LoadPdfReply(ok) /\ Throttled
  \/ RetryClick /\ Throttled
  \/ PrevClick /\ Throttled
  \/ NextClick /\ Throttled
  \/ \E deltaY \in {-1, 1} : HandleWheel(deltaY) /\ Throttled
  \/ \E left \in BOOLEAN : HandleTap(left) /\ Throttled
  \/ \E text \in PageTexts : HandlePageInput(text) /\ Throttled
  \/ ToggleViewMode /\ Throttled
  \/ JumpTimerFires /\ Throttled
  \/ \E ok \in BOOLEAN : JumpRenderSettles(ok) /\ Throttled
  \/ JumpScrolls /\ Throttled
  \/ \E pageNum \in 1..MaxPages : RenderVisiblePage(pageNum) /\ Throttled
  \/ \E entries \in AllEntryLists : ObserverCallback(entries) /\ Throttled

SpecSession == InitSession /\ [][NextSession]_vars

(* ---------------------- PDFViewer: zoom (lines 592-991) ---------------- *)
(* Zoom step and bounds of the single-page viewer, in hundredths *)
ZoomStep == 25

ZoomMax == 300

ZoomMin == 50

(* Variant of zoomIn: no upper bound *)
zoomInUnbounded(prev) == prev + ZoomStep

(* setScale((prev) => Math.min(prev + 0.25, 3)) *)
zoomIn(prev) == IF prev + ZoomStep < ZoomMax THEN prev + ZoomStep ELSE ZoomMax

(* setScale((prev) => Math.max(prev - 0.25, 0.5)) *)
zoomOut(prev) == IF prev - ZoomStep > ZoomMin THEN prev - ZoomStep ELSE ZoomMin

(* setScale with a new zoom level, and the effect on [pdfDoc, currentPage, *)
(* scale, rotation] that a changed level triggers                          *)
SetScale(newScale) ==
  /\ viewer.mounted /\ viewer.pc = "ready" /\ viewer.viewMode = "single"
  /\ viewer' = [viewer EXCEPT !.scale = newScale]
  /\ IF newScale # viewer.scale /\ viewer.currentPage <= viewer.totalPages
     THEN PageChange(viewer.currentPage, viewer.totalPages, Val(selectedBook))
     ELSE NoPageChange
  /\ UNCHANGED viewerFrame

(* Zoom-in button *)
ZoomIn == SetScale(zoomIn(viewer.scale))

(* Zoom-out button *)
ZoomOut == SetScale(zoomOut(viewer.scale))

(* One reading session in the single-page viewer with its zoom buttons;   *)
(* every updateBook slot may be in use                                     *)
NextZoom ==
  \/ \E k \in 1..MaxShelf : HandleBookSelect(k)
  \/ \E p \in 1..MaxUpdates, ok \in BOOLEAN : BookUpdateSettle(p, ok)
  \/ ScriptLoaded
  \/ \E ok \in BOOLEAN : LoadPdfReply(ok)
  \/ RetryClick
  \/ PrevClick
  \/ NextClick
  \/ ZoomIn
  \/ ZoomOut

SpecZoom == InitSession /\ [][NextZoom]_vars

(* Rapid navigation in single mode: every updateBook slot may be in use *)
NextBurst ==
  \/ \E k \in 1..MaxShelf : HandleBookSelect(k)
  \/ \E p \in 1..MaxUpdates, ok \in BOOLEAN : BookUpdateSettle(p, ok)
  \/ ScriptLoaded
  \/ \E ok \in BOOLEAN : LoadPdfReply(ok)
  \/ RetryClick
  \/ PrevClick
  \/ NextClick

SpecBurst == InitReader /\ [][NextBurst]_vars

(* ------------------- PDFViewer: renders of scroll mode ----------------- *)
(* The effect of lines 145-153 calls renderScrollPage for a visible page   *)
(* that is not in renderedPages, up to its await                           *)
RenderVisibleStart(pageNum) ==
  /\ viewer.mounted /\ viewer.pc = "ready" /\ viewer.viewMode = "scroll"
  /\ pageNum \in viewer.visiblePages \ viewer.renderedPages
  /\ viewer.renders[pageNum] # "awaited"
  /\ viewer' = [viewer EXCEPT !.renders[pageNum] = "awaited"]
  /\ NoPageChange
  /\ UNCHANGED viewerFrame

(* Variant of RenderScrollSettles: a failure ends the other renders and is *)
(* shown as the viewer's error                                             *)
RenderFailureAborts(pageNum, ok) ==
  /\ viewer.mounted /\ viewer.renders[pageNum] = "awaited"
  /\ viewer' = IF ok
                THEN [viewer EXCEPT !.renders[pageNum] = "none",
                                    !.renderedPages = @ \cup {pageNum}]
                ELSE [viewer EXCEPT !.renders = [p \in 1..MaxPages |->
                                        IF p = pageNum THEN "failed" ELSE "none"],
                                    !.pc = "failed"]
  /\ NoPageChange
  /\ UNCHANGED viewerFrame

(* renderScrollPage after its awaits: setRenderedPages adds the page, or   *)
(* the catch logs the error                                                *)
RenderScrollSettles(pageNum, ok) ==
  /\ viewer.mounted /\ viewer.renders[pageNum] = "awaited"
  /\ viewer' = IF ok
                THEN [viewer EXCEPT !.renders[pageNum] = "none",
                                    !.renderedPages = @ \cup {pageNum}]
                ELSE [viewer EXCEPT !.renders[pageNum] = "failed"]
  /\ NoPageChange
  /\ UNCHANGED viewerFrame

(* One reading session in scroll mode, with the renders of the visible     *)
(* pages in flight                                                         *)
NextScroll ==
  \/ \E k \in 1..MaxShelf : HandleBookSelect(k) /\ Throttled
  \/ \E p \in 1..MaxUpdates, ok \in BOOLEAN : BookUpdateSettle(p, ok) /\ Throttled
  \/ ScriptLoaded /\ Throttled
  \/ \E ok \in BOOLEAN : LoadPdfReply(ok) /\ Throttled
  \/ RetryClick /\ Throttled
  \/ ToggleViewMode /\ Throttled
  \/ JumpTimerFires /\ Throttled
  \/ \E ok \in BOOLEAN : JumpRenderSettles(ok) /\ Throttled
  \/ JumpScrolls /\ Throttled
  \/ \E pageNum \in 1..MaxPages : RenderVisibleStart(pageNum) /\ Throttled
  \/ \E pageNum \in 1..MaxPages, ok \in BOOLEAN :
        RenderScrollSettles(pageNum, ok) /\ Throttled
  \/ \E entries \in AllEntryLists : ObserverCallback(entries) /\ Throttled

SpecScroll == InitSession /\ [][NextScroll]_vars

(* ---------------- PDFViewer: the viewport of scroll mode --------------- *)
(* Visible fractions, in percent, that a page's element may have *)
Fractions == {0, 15, 60}

(* The entries the observer delivers for `pages`, by ascending page, once  *)
(* the pages have the visible fractions `shown`                            *)
RECURSIVE EntriesOf(_, _)
EntriesOf(pages, shown) ==
  IF pages = {} THEN <<>>
  ELSE LET page == CHOOSE p \in pages : \A q \in pages : p <= q
       IN <<[page |-> page, isIntersecting |-> shown[page] > 0,
             intersectionRatio |-> shown[page]]>>
            \o EntriesOf(pages \ {page}, shown)

(* The layouts the scroll container may have: the visible fraction of each *)
(* page                                                                    *)
Layouts == [1..MaxPages -> Fractions]

(* The viewport moves to the layout `shown`, and the observer's callback   *)
(* of lines 100-130 gets the entries of `pages`, which hold every page     *)
(* whose visible fraction has changed                                      *)
ViewportMoves(shown, pages) ==
  /\ viewer.mounted /\ viewer.pc = "ready" /\ viewer.viewMode = "scroll"
  /\ pages # {} /\ pages \subseteq 1..viewer.totalPages
  /\ \A p \in 1..MaxPages :
       shown[p] # viewer.fractions[p] => p \in pages
  /\ LET entries == EntriesOf(pages, shown)
         best == MostVisible(<<0, viewer.currentPage>>, entries)
     IN IF VisibleEnough(best[1])
        THEN /\ viewer' = [viewer EXCEPT
                   !.fractions = shown,
                   !.visiblePages = VisibleAfter(@, entries),
                   !.currentPage = best[2]]
             /\ PageChange(best[2], viewer.totalPages, Val(viewer.observerBook))
        ELSE /\ viewer' = [viewer EXCEPT
                   !.fractions = shown,
                   !.visiblePages = VisibleAfter(@, entries)]
             /\ NoPageChange
  /\ UNCHANGED viewerFrame

(* One reading session that goes to scroll mode and scrolls *)
NextViewport ==
  \/ \E k \in 1..MaxShelf : HandleBookSelect(k) /\ Throttled
  \/ \E p \in 1..MaxUpdates, ok \in BOOLEAN : BookUpdateSettle(p, ok) /\ Throttled
  \/ ScriptLoaded /\ Throttled
  \/ \E ok \in BOOLEAN : LoadPdfReply(ok) /\ Throttled
  \/ RetryClick /\ Throttled
  \/ viewer.mounted /\ viewer.viewMode = "single" /\ ToggleViewMode /\ Throttled
  \/ JumpTimerFires /\ Throttled
  \/ \E ok \in BOOLEAN : JumpRenderSettles(ok) /\ Throttled
  \/ JumpScrolls /\ Throttled
  \/ \E shown \in Layouts, pages \in SUBSET (1..MaxPages) :
        ViewportMoves(shown, pages) /\ Throttled

SpecViewport == InitSession /\ [][NextViewport]_vars

(* ------------------ PDFViewer: renders of single mode ------------------ *)
(* The effect of lines 66-71 runs for a new currentPage: renderPage() up   *)
(* to its await of pdfDoc.getPage(currentPage)                             *)
RenderPageStarts ==
  /\ viewer.mounted /\ viewer.pc = "ready" /\ viewer.viewMode = "single"
  /\ viewer.currentPage <= viewer.totalPages
  /\ viewer.currentPage # viewer.effectPage
  /\ Cardinality(viewer.pageRenders) < MaxRenders
  /\ viewer' = [viewer EXCEPT
        !.effectPage = viewer.currentPage,
        !.pageRenders = @ \cup {[page |-> viewer.currentPage, stage |-> "getPage"]}]
  /\ NoPageChange
  /\ UNCHANGED viewerFrame

(* renderPage between its two awaits: the canvas is resized, which clears  *)
(* it, and page.render starts.  While another page.render draws on the     *)
(* canvas, pdf.js either refuses the new one (throws) or draws both        *)
RenderPageDraws(render, refused) ==
  /\ viewer.mounted /\ render \in viewer.pageRenders /\ render.stage = "getPage"
  /\ refused => \E other \in viewer.pageRenders : other.stage = "render"
  /\ viewer' = [viewer EXCEPT
        !.canvas = 0,
        !.pageRenders = (@ \ {render}) \cup
           IF refused THEN {} ELSE {[page |-> render.page, stage |-> "render"]}]
  /\ NoPageChange
  /\ UNCHANGED viewerFrame

(* page.render(...).promise resolves: the page is on the canvas *)
RenderPageDone(render) ==
  /\ viewer.mounted /\ render \in viewer.pageRenders /\ render.stage = "render"
  /\ viewer' = [viewer EXCEPT !.canvas = render.page, !.pageRenders = @ \ {render}]
  /\ NoPageChange
  /\ UNCHANGED viewerFrame

(* The renderPage calls there may be *)
PageRenders == [page : 1..MaxPages, stage : {"getPage", "render"}]

(* One reading session in single mode, with the renders of the canvas *)
NextCanvas ==
  \/ \E k \in 1..MaxShelf : HandleBookSelect(k) /\ Throttled
  \/ \E p \in 1..MaxUpdates, ok \in BOOLEAN : BookUpdateSettle(p, ok) /\ Throttled
  \/ ScriptLoaded /\ Throttled
  \/ \E ok \in BOOLEAN : LoadPdfReply(ok) /\ Throttled
  \/ RetryClick /\ Throttled
  \/ PrevClick /\ Throttled
  \/ NextClick /\ Throttled
  \/ RenderPageStarts /\ Throttled
  \/ \E render \in PageRenders, refused \in BOOLEAN :
        RenderPageDraws(render, refused) /\ Throttled
  \/ \E render \in PageRenders : RenderPageDone(render) /\ Throttled

SpecCanvas == InitSession /\ [][NextCanvas]_vars

(* ------------------------ PDFViewer: engine load ----------------------- *)
(* The request for the pdf.js script ends in an error event: the effect    *)
(* of lines 48-63 sets script.onload only, so no handler runs and no state *)
(* of the component changes; pc "noengine" records that the request is over*)
ScriptError ==
  /\ viewer.mounted /\ viewer.pc = "script"
  /\ viewer' = [viewer EXCEPT !.pc = "noengine"]
  /\ NoPageChange
  /\ UNCHANGED viewerFrame

(* What PDFViewer returns: the spinner while `loading`, the message with   *)
(* the Retry button when `error` is set, the document otherwise            *)
Screen(v) ==
  CASE v.pc \in {"script", "noengine", "loading"} -> "Loading"
    [] v.pc = "failed" -> "Error"
    [] v.pc = "ready" -> "Ready"

(* Opening documents, with either outcome of the engine request *)
NextLoad ==
  \/ \E k \in 1..MaxShelf : HandleBookSelect(k)
  \/ \E p \in 1..MaxUpdates, ok \in BOOLEAN : BookUpdateSettle(p, ok)
  \/ ScriptLoaded
  \/ ScriptError
  \/ \E ok \in BOOLEAN : LoadPdfReply(ok)
  \/ RetryClick
  \/ PrevClick
  \/ NextClick

SpecLoad == InitReader /\ [][NextLoad]_vars

(* ----------------------------- preview mode ---------------------------- *)
(* PinGate renders <App isPreviewMode={true} /> *)
AppInPreview == GateShows = "preview"

(* The library entered through the preview button of the gate *)
NextPreview ==
  \/ PreviewClick
  \/ \E file \in Files : AppInPreview /\ HandleFileSelect(file)
  \/ AppInPreview /\ CancelUploadForm
  \/ \E u \in 1..MaxUploads : AppInPreview /\ HandleUploadSubmit(u)
  \/ \E u \in 1..MaxUploads, ok, urlOk \in BOOLEAN : StorageUploadReply(u, ok, urlOk)
  \/ \E u \in 1..MaxUploads, ok \in BOOLEAN : InsertReply(u, ok)
  \/ \E k \in 1..MaxShelf : AppInPreview /\ HandleBookSelect(k)

SpecPreview == InitReader /\ [][NextPreview]_vars

(* ============================== properties ============================== *)
IsCall(e, op) == e.kind = "call" /\ e.op = op

IsReply(e, op, ok) == e.kind = "reply" /\ e.op = op /\ e.ok = ok

IsProgress(e) == e.kind = "progress"

(* The progress events of a log, in order *)
RECURSIVE ProgressOf(_)
ProgressOf(log) ==
  IF log = <<>> THEN <<>>
  ELSE IF IsProgress(Head(log)) THEN <<Head(log)>> \o ProgressOf(Tail(log))
       ELSE ProgressOf(Tail(log))

(* Entry i of the log has an entry satisfying the test before it *)
HasBefore(log, i, Test(_)) == \E j \in 1..(i - 1) : Test(log[j])

UploadOk(e) == IsReply(e, "storage.upload", TRUE)

UploadIssued(e) == IsCall(e, "storage.upload")

UrlOk(e) == IsReply(e, "storage.getPublicUrl", TRUE)

UrlAsked(e) == IsCall(e, "storage.getPublicUrl")

InsertIssued(e) == IsCall(e, "books.insert")

InsertOk(e) == IsReply(e, "books.insert", TRUE)

StepFailed(e) == e.kind = "reply" /\ ~e.ok

(* C1: uploadBook issues the metadata insert only after the binary upload  *)
(* has succeeded and a non-empty public URL has been obtained; an upload   *)
(* whose binary upload failed or that got no URL never issues an insert.   *)
C1_InsertAfterUploadAndUrl ==
  \A u \in 1..MaxUploads :
    LET log == uploads[u].log
    IN /\ \A i \in 1..Len(log) :
            InsertIssued(log[i]) =>
              /\ HasBefore(log, i, UploadOk)
              /\ HasBefore(log, i, UrlOk)
              /\ log[i].arg.file_url # <<>>
       /\ (\E j \in 1..Len(log) :
              \/ IsReply(log[j], "storage.upload", FALSE)
              \/ IsReply(log[j], "storage.getPublicUrl", FALSE))
            => ~\E i \in 1..Len(log) : InsertIssued(log[i])

(* One upload has issued its insert while another failed before it *)
C1_Witness ==
  \E u, v \in 1..MaxUploads :
    /\ uploads[u].pc = "await_insert"
    /\ uploads[v].pc = "raised"
    /\ uploads[v].error = Some("Failed to get file URL")

(* C2: when a step of uploadBook fails, the last progress event has status *)
(* 'error' and a message, no 'completed' event was emitted, and the call   *)
(* raises instead of returning a Book.                                     *)
C2_FailureEndsInErrorEvent ==
  \A u \in 1..MaxUploads :
    LET up == uploads[u]
        events == ProgressOf(up.log)
    IN (\E j \in 1..Len(up.log) : StepFailed(up.log[j])) =>
         /\ up.pc = "raised"
         /\ up.error # NULL
         /\ up.result = NULL
         /\ events # <<>>
         /\ Last(events).status = "error"
         /\ Last(events).error # NULL
         /\ Val(Last(events).error) # ""
         /\ IsProgress(Last(up.log))
         /\ \A i \in 1..Len(events) : events[i].status # "completed"

(* An upload failed at its last step, the insert *)
C2_Witness ==
  \E u \in 1..MaxUploads :
    /\ uploads[u].pc = "raised"
    /\ uploads[u].error = Some("Database insert failed")

(* C3: when uploadBook returns, the returned Book's URL is non-empty and   *)
(* its record is in the table with current_page 1 and reading_progress 0.  *)
C3_ReturnedBookIsStored ==
  [][\A u \in 1..MaxUploads :
       (uploads[u].pc # "returned" /\ uploads'[u].pc = "returned") =>
         LET book == Val(uploads'[u].result)
         IN /\ book.url # <<>>
            /\ book.currentPage = 1
            /\ book.readingProgress = 0
            /\ \E r \in books' :
                 /\ r.id = book.id
                 /\ r.file_url = book.url
                 /\ r.current_page = 1
                 /\ r.reading_progress = 0]_vars

(* Two uploads have returned their Books *)
C3_Witness ==
  \E u, v \in 1..MaxUploads :
    /\ u # v
    /\ uploads[u].pc = "returned"
    /\ uploads[v].pc = "returned"
    /\ Val(uploads[u].result).id # Val(uploads[v].result).id

(* C4 as stated: 25 after the binary upload has begun, 50 once the upload  *)
(* has completed and the URL is retrieved, 75 before the insert, 100 on    *)
(* success, and exactly 0, 25, 50, 75, 100 on a successful upload.         *)
C4_AsStated ==
  \A u \in 1..MaxUploads :
    LET log == uploads[u].log
        events == ProgressOf(log)
    IN /\ \A i \in 1..Len(log) :
            (IsProgress(log[i]) /\ log[i].status # "error") =>
              /\ log[i].progress = 25 => HasBefore(log, i, UploadIssued)
              /\ log[i].progress = 50 =>
                   HasBefore(log, i, UploadOk) /\ HasBefore(log, i, UrlOk)
              /\ log[i].progress = 75 => ~HasBefore(log, i, InsertIssued)
              /\ log[i].progress = 100 => HasBefore(log, i, InsertOk)
       /\ uploads[u].pc = "returned" =>
            [i \in 1..Len(events) |-> events[i].progress] = <<0, 25, 50, 75, 100>>

(* C4 amended: 0 and 25 are emitted before the binary upload is issued, 50 *)
(* after the upload has completed and before the URL is asked for, 75      *)
(* after the URL is obtained and before the insert is issued, 100 after    *)
(* the insert succeeded; the percentages before an error event never       *)
(* decrease and are exactly 0, 25, 50, 75, 100 on a successful upload.     *)
C4_Checkpoints ==
  \A u \in 1..MaxUploads :
    LET log == uploads[u].log
        events == ProgressOf(log)
    IN /\ \A i \in 1..Len(log) :
            (IsProgress(log[i]) /\ log[i].status # "error") =>
              /\ log[i].progress \in {0, 25} => ~HasBefore(log, i, UploadIssued)
              /\ log[i].progress = 50 =>
                   HasBefore(log, i, UploadOk) /\ ~HasBefore(log, i, UrlAsked)
              /\ log[i].progress = 75 =>
                   HasBefore(log, i, UrlOk) /\ ~HasBefore(log, i, InsertIssued)
              /\ log[i].progress = 100 => HasBefore(log, i, InsertOk)
              /\ log[i].progress \in {0, 25, 50, 75, 100}
       /\ \A i, j \in 1..Len(events) :
            (i < j /\ events[j].status # "error") =>
              events[i].progress < events[j].progress
       /\ uploads[u].pc # "idle" => IsProgress(log[1]) /\ log[1].progress = 0
       /\ uploads[u].pc = "returned" =>
            [i \in 1..Len(events) |-> events[i].progress] = <<0, 25, 50, 75, 100>>

(* An upload has succeeded and another stopped at 50 without a URL *)
C4_Witness ==
  \E u, v \in 1..MaxUploads :
    /\ uploads[u].pc = "returned"
    /\ uploads[v].error = Some("Failed to get file URL")

(* C5: the identifier in the storage key, the identifier in the upload's   *)
(* progress events and the returned Book's id are the same value.          *)
C5_OneIdentifier ==
  \A u \in 1..MaxUploads :
    uploads[u].pc = "returned" =>
      LET up == uploads[u]
          book == Val(up.result)
          events == ProgressOf(up.log)
      IN /\ Val(up.fileName) = FileName(book.id, FileExt(Val(up.file)))
         /\ \A i \in 1..Len(events) : events[i].bookId = book.id
         /\ \E r \in books : r.id = book.id /\ FilenameOfUrl(r.file_url) = Val(up.fileName)

(* C6: a selected file whose type is not application/pdf shows no form,    *)
(* never reaches uploadBook and causes no store operation.                 *)
C6_NonPdfRejected ==
  [][/\ uploadFile' # NULL => Val(uploadFile').type = PdfType
     /\ \A u \in 1..MaxUploads :
          uploads'[u].pc # "idle" => Val(uploads'[u].file).type = PdfType
     /\ \A f \in Files :
          (f.type # PdfType /\ HandleFileSelect(f)) =>
            UNCHANGED <<uploadFile, showUploadForm, formData, uploads, books, bucket>>]_vars

(* A non-PDF file was selected: the alert is up and no form is shown *)
C6_Witness ==
  /\ lastAlert = "Please select a PDF file"
  /\ ~showUploadForm
  /\ uploadFile = NULL
  /\ \A u \in 1..MaxUploads : uploads[u].pc = "idle"

RecordDeleted(e) == IsReply(e, "books.delete", TRUE)

LookupOk(e) == IsReply(e, "books.select", TRUE)

RemoveIssued(e) == IsCall(e, "storage.remove")

(* deleteBook call d found and deleted its record, and the removal of the  *)
(* binary then returned an error                                           *)
RemovalFailed(del) ==
  /\ \E j \in 1..Len(del.log) : LookupOk(del.log[j])
  /\ \E j \in 1..Len(del.log) : RecordDeleted(del.log[j])
  /\ \E j \in 1..Len(del.log) : IsReply(del.log[j], "storage.remove", FALSE)

BookIdsOf(result) == {result[i].id : i \in 1..Len(result)}

GetBooksReplied(g) == gets[g].pc = "await_select" /\ gets'[g].pc = "returned"

(* C7: when the lookup and the record delete succeed and the storage       *)
(* removal fails, deleteBook returns without raising, the record is gone,  *)
(* and a getBooks() answered afterwards does not include the identifier.   *)
C7_DeleteSurvivesRemovalFailure ==
  [][\A d \in 1..MaxDeletes :
       RemovalFailed(deletes'[d]) =>
         /\ deletes'[d].pc = "returned"
         /\ deletes'[d].error = NULL
         /\ \A r \in books' : r.id # Val(deletes'[d].bookId)
         /\ \A g \in 1..MaxGets :
              GetBooksReplied(g) =>
                Val(deletes'[d].bookId) \notin BookIdsOf(Val(gets'[g].result))]_vars

(* The removal failed, and a getBooks() has since listed the other books *)
C7_Witness ==
  \E d \in 1..MaxDeletes, g \in 1..MaxGets :
    /\ RemovalFailed(deletes[d])
    /\ gets[g].pc = "returned"
    /\ ~gets[g].logged
    /\ BookIdsOf(Val(gets[g].result)) = BookIds \ {Val(deletes[d].bookId)}

(* C8: deleteBook deletes the record before it asks for the binary to be   *)
(* removed; when the lookup or the record delete fails it raises without   *)
(* asking for the removal; no record in the table lacks its binary.        *)
C8_RecordDeletedBeforeBinary ==
  /\ \A d \in 1..MaxDeletes :
       LET del == deletes[d]
       IN /\ \A i \in 1..Len(del.log) :
               RemoveIssued(del.log[i]) =>
                 /\ HasBefore(del.log, i, LookupOk)
                 /\ HasBefore(del.log, i, RecordDeleted)
                 /\ RowsWithId(Val(del.bookId)) = {}
          /\ (\E j \in 1..Len(del.log) :
                \/ IsReply(del.log[j], "books.select", FALSE)
                \/ IsReply(del.log[j], "books.delete", FALSE))
               => /\ del.pc = "raised"
                  /\ del.error # NULL
                  /\ ~\E i \in 1..Len(del.log) : RemoveIssued(del.log[i])
  /\ \A r \in books : FilenameOfUrl(r.file_url) \in bucket

(* A record delete failed: the call raised, record and binary are intact *)
C8_Witness ==
  \E d \in 1..MaxDeletes :
    /\ deletes[d].pc = "raised"
    /\ deletes[d].error = Some("Failed to delete book record")
    /\ RowsWithId(Val(deletes[d].bookId)) # {}

(* Book a may come before book b in the order the claim describes *)
MayPrecede(a, b) ==
  \/ a.lastRead # NULL /\ b.lastRead = NULL
  \/ a.lastRead # NULL /\ b.lastRead # NULL /\ Val(a.lastRead) > Val(b.lastRead)
  \/ a.lastRead = b.lastRead /\ a.dateAdded >= b.dateAdded

(* C9: a getBooks() that did not fail returns all records, by last-read    *)
(* descending with null last-read after all others, ties (all nulls        *)
(* included) by creation time descending.                                  *)
C9_GetBooksOrdering ==
  [][\A g \in 1..MaxGets :
       (GetBooksReplied(g) /\ ~gets'[g].logged) =>
         LET result == Val(gets'[g].result)
         IN /\ Len(result) = Cardinality(books)
            /\ BookIdsOf(result) = {r.id : r \in books}
            /\ \A i, j \in 1..Len(result) : i < j => MayPrecede(result[i], result[j])]_vars

(* A result [t2, t1, null] with t2 > t1 *)
C9_Witness ==
  \E g \in 1..MaxGets :
    /\ gets[g].pc = "returned"
    /\ Len(Val(gets[g].result)) >= 3
    /\ LET result == Val(gets[g].result)
       IN /\ result[1].lastRead # NULL
          /\ result[2].lastRead # NULL
          /\ Val(result[1].lastRead) > Val(result[2].lastRead)
          /\ result[3].lastRead = NULL

(* C10: on a fetch failure (error result or exception) getBooks() returns  *)
(* an empty collection; it never raises.                                   *)
C10_GetBooksNeverRaises ==
  \A g \in 1..MaxGets :
    /\ gets[g].pc \in {"idle", "await_select", "returned"}
    /\ gets[g].error = NULL
    /\ gets[g].logged => gets[g].pc = "returned" /\ gets[g].result = Some(<<>>)

(* A fetch failed on a library that has books *)
C10_Witness ==
  \E g \in 1..MaxGets :
    /\ gets[g].logged
    /\ gets[g].pc = "returned"
    /\ books # {}

(* Fields of a Book that fromDb and toDb both map *)
RoundTripFields == DOMAIN ToDbColumns

(* The nullable fields among them *)
NullableFields == {f \in RoundTripFields : ToDbColumns[f] \in NullableColumns}

(* Field f of book b holds a value (neither undefined nor null) *)
Given(b, f) == f \in DOMAIN b /\ (f \in NullableFields => b[f] # NULL)

(* C19 as stated: converting a Book to a record and back yields the Book   *)
(* on every field other than id and dateAdded, absent fields staying       *)
(* absent.                                                                 *)
C19_AsStated ==
  mapResult # NULL =>
    \A f \in RoundTripFields :
      /\ f \in DOMAIN Val(mapBook) <=> f \in DOMAIN Val(mapResult)
      /\ f \in DOMAIN Val(mapBook) => Val(mapResult)[f] = Val(mapBook)[f]

(* C19, amended: converting a Book to a record and back yields the Book's  *)
(* value on every mapped field the Book gives a value, and fromDb's        *)
(* default on every optional field the Book leaves absent or null.         *)
C19_RoundTrip ==
  mapResult # NULL =>
    \A f \in RoundTripFields :
      IF Given(Val(mapBook), f)
      THEN Val(mapResult)[f] = Val(mapBook)[f]
      ELSE /\ f \in OptionalFields
           /\ f \in DOMAIN Val(mapResult)
           /\ Val(mapResult)[f] = FromDbDefaults[f]

C19_Witness ==
  /\ mapResult # NULL
  /\ "totalPages" \notin DOMAIN Val(mapBook)
  /\ "lastRead" \in DOMAIN Val(mapBook) /\ Val(mapBook).lastRead = Some(1)
  /\ Val(mapResult).lastRead = Some(1)
  /\ Val(mapResult).totalPages = Some(0)

(* Two texts that differ at most in the case of their letters *)
SameIgnoringCase(a, b) ==
  /\ Len(a) = Len(b)
  /\ \A k \in 1..Len(a) : toLowerCaseChar(a[k]) = toLowerCaseChar(b[k])

(* query occurs in text at some offset, case ignored *)
OccursIn(query, text) ==
  \E k \in 1..Len(text) :
    k + Len(query) - 1 <= Len(text)
    /\ SameIgnoringCase(SubSeq(text, k, k + Len(query) - 1), query)

Matches(book, query) ==
  \/ OccursIn(query, book.title)
  \/ OccursIn(query, book.author)
  \/ \E k \in 1..Len(Val(book.tags)) : OccursIn(query, Val(book.tags)[k])

PositionIn(shelf, book) == CHOOSE k \in DOMAIN shelf : shelf[k] = book

(* C18: the filtered list holds exactly the books in whose title, author   *)
(* or some tag the query occurs with case ignored, each once and in the    *)
(* order of the collection; an empty query keeps every book.               *)
C18_SearchFilter ==
  /\ \A k \in DOMAIN appBooks :
       (\E j \in DOMAIN filteredBooks : filteredBooks[j] = appBooks[k])
         <=> (searchQuery = <<>> \/ Matches(appBooks[k], searchQuery))
  /\ \A j \in DOMAIN filteredBooks : \E k \in DOMAIN appBooks : appBooks[k] = filteredBooks[j]
  /\ \A j, k \in DOMAIN filteredBooks :
       j < k => PositionIn(appBooks, filteredBooks[j]) < PositionIn(appBooks, filteredBooks[k])
  /\ searchQuery = <<>> => filteredBooks = appBooks

C18_Witness ==
  /\ searchQuery = <<"F", "I", "C">>
  /\ Len(appBooks) = 3
  /\ appBooks[1].title = <<"I", "c", "e", "f", "a", "l", "l">>
  /\ appBooks[2].title = <<"D", "u", "n", "e">>
  /\ Len(filteredBooks) = 2
  /\ filteredBooks[1] = appBooks[1]
  /\ filteredBooks[2] = appBooks[3]

(* C17: once the entered PIN has equalled the secret, the application is   *)
(* shown from then on: no step takes PinGate from rendering the            *)
(* application back to anything else.                                      *)
C17_AccessStaysGranted == [][pin = correctPin => pin' = correctPin]_vars

(* The columns that updateBook is asked to write for `upd` *)
NamedColumns(upd) == {ToDbColumns[f] : f \in (DOMAIN upd) \cap (DOMAIN ToDbColumns)}

(* The value a column takes when v is written to it *)
Stored(c, v) == IF c = "reading_progress" THEN Decimal52(v) ELSE v

Settles(p) == bookUpdates[p] # NULL /\ bookUpdates'[p] = NULL

(* The record of the remote table with an id, as a Book *)
RemoteBook(rows, id) == fromDb(CHOOSE r \in rows : r.id = id)

(* Entries of the in-memory collection other than those with an id are the *)
(* same before and after the step, and no alert is shown                   *)
OthersKept(id) ==
  /\ DOMAIN appBooks' = DOMAIN appBooks
  /\ \A k \in DOMAIN appBooks : appBooks[k].id # id => appBooks'[k] = appBooks[k]
  /\ lastAlert' = lastAlert

(* C12 as stated: after handleBookUpdate(b) settles, succeeded or raised,  *)
(* the collection entry with b's id carries b's currentPage and            *)
(* readingProgress, the other entries are unchanged and no error is shown  *)
C12_AsStated ==
  [][\A p \in 1..MaxUpdates :
       Settles(p) =>
         LET b == Val(bookUpdates[p]).updatedBook
         IN /\ OthersKept(b.id)
            /\ \A k \in DOMAIN appBooks :
                 appBooks[k].id = b.id =>
                   /\ appBooks'[k].currentPage = b.currentPage
                   /\ appBooks'[k].readingProgress = b.readingProgress
    ]_vars

(* C12: after handleBookUpdate(b) settles, the collection entry with b's   *)
(* id is b itself when updateBook raised, and the Book made of the updated *)
(* remote record when it succeeded: it carries b's currentPage and b's     *)
(* readingProgress rounded to two decimals.  The other entries are         *)
(* unchanged and no error is shown.                                        *)
C12_LocalUpdate ==
  [][\A p \in 1..MaxUpdates :
       Settles(p) =>
         LET b == Val(bookUpdates[p]).updatedBook
         IN /\ OthersKept(b.id)
            /\ \A k \in DOMAIN appBooks :
                 appBooks[k].id = b.id =>
                   /\ appBooks'[k].currentPage = b.currentPage
                   /\ \/ books' = books /\ appBooks'[k] = b
                      \/ /\ appBooks'[k] = RemoteBook(books', b.id)
                         /\ appBooks'[k].readingProgress = Decimal52(b.readingProgress)
    ]_vars

(* A remote update has failed and settled: a collection entry carries a    *)
(* page and a progress that its remote record does not have, while no      *)
(* update is in flight and no alert is shown                               *)
C12_Witness ==
  /\ \A p \in 1..MaxUpdates : bookUpdates[p] = NULL
  /\ lastAlert = ""
  /\ \E k \in DOMAIN appBooks :
       /\ appBooks[k].readingProgress =
            PageProgress(appBooks[k].currentPage, NumPages(appBooks[k].id))
       /\ \E r \in books : r.id = appBooks[k].id /\ r.reading_progress = 0

(* The viewer shows a document: its page count is known *)
PageCountKnown == viewer.mounted /\ viewer.pdfDoc # NULL

(* C13: in the open viewer, on a document whose page count is known, the   *)
(* current page is within [1, totalPages]                                  *)
C13_PageInRange ==
  PageCountKnown => viewer.currentPage >= 1 /\ viewer.currentPage <= viewer.totalPages

(* A page-change event is handled in this step: handleBookUpdate is called *)
(* in slot p                                                               *)
PageEvent(p) == bookUpdates[p] = NULL /\ bookUpdates'[p] # NULL

(* The Book that the page-change event of slot p hands to handleBookUpdate *)
EventBook(p) == Val(bookUpdates'[p]).updatedBook

(* C14 as stated: the progress written into the Book by every page-change  *)
(* event (currentPage, totalPages) is round(currentPage/totalPages x 100)  *)
(* and lies in [0, 100]                                                    *)
C14_AsStated ==
  [][\A p \in 1..MaxUpdates :
       PageEvent(p) =>
         /\ EventBook(p).readingProgress =
              MathRound(PageProgress(EventBook(p).currentPage, viewer'.totalPages))
         /\ EventBook(p).readingProgress >= 0
         /\ EventBook(p).readingProgress <= Percent(100)
    ]_vars

(* C14: every page-change event (currentPage, totalPages) has currentPage  *)
(* in [1, totalPages] and writes into the Book the unrounded quotient      *)
(* currentPage/totalPages x 100, which is above 0 and at most 100          *)
C14_Progress ==
  [][\A p \in 1..MaxUpdates :
       PageEvent(p) =>
         /\ EventBook(p).currentPage >= 1
         /\ EventBook(p).currentPage <= viewer'.totalPages
         /\ EventBook(p).readingProgress * viewer'.totalPages =
              EventBook(p).currentPage * Percent(100)
         /\ EventBook(p).readingProgress > 0
         /\ EventBook(p).readingProgress <= Percent(100)
    ]_vars

(* The page-change event of page 1 of a document of MaxPages pages is      *)
(* being handled: the progress it wrote is no whole number of percent      *)
C14_Witness ==
  \E p \in 1..MaxUpdates :
    /\ bookUpdates[p] # NULL
    /\ viewer.mounted /\ viewer.totalPages = MaxPages
    /\ Val(bookUpdates[p]).updatedBook.currentPage = 1
    /\ Val(bookUpdates[p]).updatedBook.readingProgress = PageProgress(1, MaxPages)
    /\ Val(bookUpdates[p]).updatedBook.readingProgress
         # MathRound(Val(bookUpdates[p]).updatedBook.readingProgress)

(* The intersecting entries of a visibility update *)
Intersecting(entries) == {i \in DOMAIN entries : entries[i].isIntersecting}

(* The largest visible fraction among the intersecting entries, 0 without *)
TopRatio(entries) ==
  IF Intersecting(entries) = {} THEN 0
  ELSE CHOOSE r \in Ratios :
         /\ \E i \in Intersecting(entries) : entries[i].intersectionRatio = r
         /\ \A i \in Intersecting(entries) : entries[i].intersectionRatio <= r

(* The pages reported with the largest visible fraction *)
TopPages(entries) ==
  {entries[i].page : i \in {j \in Intersecting(entries) :
                              entries[j].intersectionRatio = TopRatio(entries)}}

SwitchToScroll == viewer.mounted /\ viewer.viewMode = "single" /\ viewer'.viewMode = "scroll"

(* The stage of the scrollToPage in progress, "none" without one *)
JumpStage(v) == IF v.mounted /\ v.jump # NULL THEN Val(v.jump).stage ELSE "none"

(* A scrollToPage ends in this step with its container still shown *)
JumpEnds ==
  JumpStage(viewer) = "raf" /\ Val(viewer.jump).attached /\ viewer'.mounted /\ viewer'.jump = NULL

C20_TotalPagesKnown ==
  /\ \A k \in DOMAIN appBooks :
       appBooks[k].lastRead # NULL =>
         appBooks[k].totalPages = Some(NumPages(appBooks[k].id))
  /\ \A r \in books :
       r.last_read # NULL => r.total_pages = Some(NumPages(r.id))

(* C21: after the close callback has set the selected book to none, a book *)
(* becomes selected again only by the user selecting one in the library:   *)
(* no step in which a call of handleBookUpdate settles selects a book      *)
C21_ClosedStaysClosed ==
  [][selectedBook = NULL /\ selectedBook' # NULL =>
       \A p \in 1..MaxUpdates : ~Settles(p)
    ]_vars

(* C29: when the application is entered through the preview button        *)
(* without a matching PIN, the library is read-only: uploadBook is never   *)
(* invoked and no book is selected                                         *)
C29_PreviewReadOnly ==
  AppInPreview =>
    /\ \A u \in 1..MaxUploads : uploads[u] = IdleUpload
    /\ selectedBook = NULL

(* No call of handleBookUpdate awaits updateBook *)
AllSettled == \A p \in 1..MaxUpdates : bookUpdates[p] = NULL

(* C28: after all page-change updates of the open book have settled, the   *)
(* in-memory Book's currentPage and the selected book's currentPage equal  *)
(* the page of the most recently issued page-change event, which in single *)
(* mode is the viewer's current page                                       *)
C28_LastEventWins ==
  (viewer.mounted /\ viewer.pc = "ready" /\ selectedBook # NULL /\ AllSettled) =>
     /\ Val(selectedBook).currentPage = viewer.currentPage
     /\ \A k \in DOMAIN appBooks :
          appBooks[k].id = Val(selectedBook).id =>
            appBooks[k].currentPage = viewer.currentPage

(* C30: between the switch from single-page mode at page p to scroll mode  *)
(* and the end of the programmatic scroll to page p, the current page is   *)
(* not set to another page than p and the page-change callback is not      *)
(* fired with another page than p                                          *)
C30_NoResetDuringSwitch ==
  [][(/\ viewer.mounted /\ viewer.viewMode = "scroll" /\ viewer.jump # NULL
      /\ viewer'.mounted /\ viewer'.viewMode = "scroll") =>
       /\ viewer'.currentPage = Val(viewer.jump).page
       /\ \A q \in 1..MaxUpdates :
            PageEvent(q) => EventBook(q).currentPage = Val(viewer.jump).page
    ]_vars

(* C27: the user zoom level stays within [0.5, 3.0] after any sequence of  *)
(* zoom-in and zoom-out operations starting from 1.0, changes by exactly   *)
(* 0.25 per operation when not at a bound, and is unchanged by zoom-in at  *)
(* 3.0 and by zoom-out at 0.5                                              *)
C27_ZoomRange ==
  /\ [](viewer.mounted => viewer.scale >= 50 /\ viewer.scale <= 300)
  /\ [][/\ ZoomIn => viewer'.scale = IF viewer.scale = 300 THEN 300
                                     ELSE viewer.scale + 25
        /\ ZoomOut => viewer'.scale = IF viewer.scale = 50 THEN 50
                                      ELSE viewer.scale - 25
        /\ (viewer.mounted /\ viewer'.mounted /\ viewer'.scale # viewer.scale) =>
              ZoomIn \/ ZoomOut
       ]_vars

(* Zoom-in has been pressed up to the upper bound: the zoom level is 3.0   *)
(* and the page-change event of the last change is being handled           *)
C27_Witness ==
  /\ viewer.mounted /\ viewer.scale = 300
  /\ ~AllSettled

(* C26: every attempt to open a document leaves the Loading state: it ends *)
(* in Ready with the document and its page count, or, when the document or *)
(* the rendering engine cannot be loaded, in Error.  Here: once the engine *)
(* request has ended in an error the viewer does not show Loading, and     *)
(* Ready and Error are what the load of the document ends in               *)
C26_LeavesLoading ==
  viewer.mounted =>
    /\ viewer.pc = "noengine" => Screen(viewer) = "Error"
    /\ Screen(viewer) = "Ready" => viewer.pdfDoc # NULL /\ viewer.totalPages > 0

(* A step of toggleViewMode *)
ModeSwitch ==
  viewer.mounted /\ viewer'.mounted /\ viewer'.viewMode # viewer.viewMode

(* A renderScrollPage that was started before the last switch of mode is   *)
(* still awaited                                                           *)
RenderFromBeforeSwitch ==
  /\ viewer.mounted /\ viewer.jump # NULL
  /\ Val(viewer.jump).stage = "render" /\ ~Val(viewer.jump).attached

(* C24: switching mode resets the cached rendered pages: right after       *)
(* toggleViewMode renderedPages is empty and visiblePages is exactly the   *)
(* current page, and a page render that was started before the switch is   *)
(* never added to renderedPages after it                                   *)
C24_SwitchResetsCache ==
  [][/\ ModeSwitch =>
          /\ viewer'.renderedPages = {}
          /\ viewer'.visiblePages = {viewer'.currentPage}
     /\ (RenderFromBeforeSwitch /\ viewer'.mounted) =>
          viewer'.renderedPages \subseteq viewer.renderedPages]_vars

(* C25: a render failure of one page in scroll mode is isolated: when the  *)
(* render of page p fails, p is not added to renderedPages, the viewer     *)
(* does not show its error, the renders of the other pages go on, and a    *)
(* render of another page that succeeds still adds that page               *)
C25_RenderFailureIsolated ==
  [][\A p \in 1..MaxPages :
       /\ RenderScrollSettles(p, FALSE) =>
            /\ viewer'.renderedPages = viewer.renderedPages
            /\ viewer'.pc = viewer.pc
            /\ \A q \in 1..MaxPages \ {p} : viewer'.renders[q] = viewer.renders[q]
       /\ (RenderScrollSettles(p, TRUE)
             /\ \E q \in 1..MaxPages : viewer.renders[q] = "failed") =>
            viewer'.renderedPages = viewer.renderedPages \cup {p}]_vars

(* The render of one visible page has failed and the render of another     *)
(* one, which was awaited at the time, has succeeded since                 *)
C25_Witness ==
  /\ viewer.mounted /\ viewer.pc = "ready" /\ viewer.viewMode = "scroll"
  /\ \E p, q \in viewer.visiblePages :
       /\ p # q
       /\ viewer.renders[p] = "failed" /\ p \notin viewer.renderedPages
       /\ viewer.renders[q] = "none" /\ q \in viewer.renderedPages
  /\ viewer.jump = NULL

(* C23: in scroll mode the current page is the page with the greatest      *)
(* visible fraction among the pages that intersect the viewport: after     *)
(* every visibility change that is applied, no other page has a strictly   *)
(* greater visible fraction than the current page, also when the callback  *)
(* gets only the pages whose visibility changed                            *)
C23_MostVisiblePage ==
  [][(/\ viewer.mounted /\ viewer'.mounted
      /\ viewer'.fractions # viewer.fractions
      /\ \E q \in 1..MaxUpdates : PageEvent(q)) =>
        \A p \in 1..viewer'.totalPages :
          viewer'.fractions[p] <= viewer'.fractions[viewer'.currentPage]]_vars

(* C22: in single mode a render of a stale page that completes late never  *)
(* overwrites a newer one: once the effect has run for the current page    *)
(* and every renderPage call has settled, the canvas shows the current page*)
C22_CanvasShowsCurrentPage ==
  (/\ viewer.mounted /\ viewer.pc = "ready" /\ viewer.viewMode = "single"
   /\ viewer.effectPage = viewer.currentPage
   /\ viewer.pageRenders = {}) =>
     viewer.canvas = viewer.currentPage

=============================================================================
